---- MODULE Spec2Model ----
(***************************************************************************)
(* Model of the korea-stock-analyzer-mcp valuation pipeline:               *)
(*   - DataFetcher.fetchAll: four concurrent PythonExecutor-backed fetches *)
(*     joined by Promise.all (src/src/services/data-fetcher.ts),           *)
(*   - GuruAnalyzers.analyzeAll: six strategies started in array order,    *)
(*     joined by Promise.all, followed by calculateComprehensiveValuation  *)
(*     (src/src/analyzers/index.ts),                                       *)
(*   - the fair-value computation of each strategy.                        *)
(*                                                                         *)
(* Numbers.  JavaScript numbers are modelled by integers in fixed point:   *)
(*   - prices, EPS, BPS                : whole units,                      *)
(*   - PER, PBR, dividend yield, growth: hundredths ("c" suffix),          *)
(*   - fair values and consensus values: thousandths ("m" suffix),         *)
(*   - NaN                             : the sentinel NaN below.           *)
(* null and undefined numeric fields behave as 0 in every arithmetic and   *)
(* comparison the strategies perform, so an absent field is the value 0.   *)
(***************************************************************************)
EXTENDS Integers, Sequences, FiniteSets, TLC

-----------------------------------------------------------------------------
(* JavaScript number helpers *)

\* NaN: outside every value the model computes.
NaN == 0 - 2000000000

IsNaN(v) == v = NaN

\* JavaScript truthiness of a number: false for 0 and NaN only.
Truthy(v) == v # 0 /\ ~IsNaN(v)

Abs(x) == IF x < 0 THEN 0 - x ELSE x

Min2(a, b) == IF a <= b THEN a ELSE b

Max2(a, b) == IF a >= b THEN a ELSE b

\* Math.round(n / d) for d > 0: nearest integer, halves toward +infinity.
Round(n, d) ==
  IF d % 2 = 0 THEN (n + (d \div 2)) \div d ELSE (2 * n + d) \div (2 * d)

\* Math.round of a value held in thousandths, result in thousandths.
IsIntegerM(vm) == vm % 1000 = 0

RECURSIVE SqrtSearch(_, _, _)
SqrtSearch(x, lo, hi) ==
  IF lo >= hi THEN lo
  ELSE LET mid == (lo + hi + 1) \div 2
       IN IF mid * mid <= x THEN SqrtSearch(x, mid, hi)
                            ELSE SqrtSearch(x, lo, mid - 1)

\* floor(sqrt(x)) for 0 <= x < 2^30
ISqrt(x) == SqrtSearch(x, 0, 32767)

\* Math.round(Math.sqrt(n / d)) for n >= 0, d in {1, 2}:
\* the integer r with (2r - 1)^2 <= 4n/d < (2r + 1)^2.
RoundSqrt(n, d) == (ISqrt((4 * n) \div d) + 1) \div 2

\* values.reduce((a, b) => a + b, 0)
RECURSIVE SumSeq(_)
SumSeq(q) == IF q = <<>> THEN 0 ELSE Head(q) + SumSeq(Tail(q))

RECURSIVE Pow(_, _)
Pow(x, k) == IF k = 0 THEN 1 ELSE x * Pow(x, k - 1)

\* Math.pow(a / b, 1 / k) for a, b > 0, as the fraction <<x, y>>.  The EPS
\* values of the model are chosen so that every root taken is rational.
RootQ(a, b, k) ==
  CHOOSE p \in ((1..8) \X {1}) \cup ({1} \X (1..8)) :
    Pow(p[1], k) * b = Pow(p[2], k) * a

-----------------------------------------------------------------------------
(* Input domains: what the upstream scripts can return and what a caller  *)
(* of analyzeAll can pass.                                                *)

EpsVals == {0 - 10, 0, 10, 640}

\* Longest financial history the scripts return in the model.
MaxHistory == 3

\* A history whose growth rates are rational and within the 32-bit range:
\* from three years on, no zero first and positive older values.
RationalGrowth(h) ==
  /\ h # <<0 - 10, 0>>
  /\ Len(h) >= 3 => /\ h[1] # 0
                    /\ \A i \in 2..Len(h) : h[i] > 0

\* EPS per year, most recent first (the script appends year 0 first).
EpsHistories ==
  {h \in UNION {[1..n -> EpsVals] : n \in 0..MaxHistory} : RationalGrowth(h)}

\* bps and, in hundredths, per, pbr and dividend yield of every record: the
\* row of the exchange's fundamental table, where 0 stands for a value the
\* exchange does not report.
FundProfiles ==
  { [bps |-> 100, per |-> 1500, pbr |-> 100, div |-> 0],
    [bps |-> 100, per |-> 600,  pbr |-> 40,  div |-> 900],
    [bps |-> 0,   per |-> 0 - 500, pbr |-> 300, div |-> 200],
    [bps |-> 400, per |-> 900,  pbr |-> 120, div |-> 300],
    [bps |-> 0,   per |-> 600,  pbr |-> 0,   div |-> 0] }

\* The names of the row's fields that are 0.
ZeroFields(e, f) ==
  {n \in {"per", "pbr", "bps", "div"} : f[n] = 0}
  \cup (IF e = 0 THEN {"eps"} ELSE {})

\* The record the yearly loop appends: every field converted as it is.
\* nulls are the fields that are None (null after JSON.parse); a null field
\* counts as 0 wherever the analyzers compute or compare with it.
FinRecord(e, f) ==
  [eps |-> e, bps |-> f.bps, per |-> f.per, pbr |-> f.pbr, div |-> f.div,
   nulls |-> {}]

\* The record of the search over the last 30 days, which runs when the
\* yearly loop found nothing for the current year: a field that is 0
\* becomes None.
ForcedRecord(e, f) ==
  [eps |-> e, bps |-> f.bps, per |-> f.per, pbr |-> f.pbr, div |-> f.div,
   nulls |-> ZeroFields(e, f)]

\* The yearly loop appends a row unless PER and EPS are both 0.
RowAccepted(e, f) == f.per # 0 \/ e # 0

\* The arrays FinancialDataService.fetch can resolve to: the record of the
\* current year comes from the yearly loop or from the 30-day search, the
\* older ones from the yearly loop.
ScriptArray(h, f, forced) ==
  [i \in 1..Len(h) |-> IF i = 1 /\ forced THEN ForcedRecord(h[i], f)
                                            ELSE FinRecord(h[i], f)]

FinancialArrays ==
  {ScriptArray(x[1], x[2], x[3]) :
     x \in {y \in EpsHistories \X FundProfiles \X BOOLEAN :
              \A i \in 1..Len(y[1]) :
                 (i = 1 /\ y[3]) \/ RowAccepted(y[1][i], y[2])}}

PriceVals == {4, 36, 1000}

\* 52-week range (in quarters of the price), one-year return (percent) and
\* market capitalisation (in units of 100 000 000 won).
MarketShapes ==
  { [hi |-> 16, lo |-> 4, yearReturn |-> 0 - 45, cap |-> 0],
    [hi |-> 0,  lo |-> 0, yearReturn |-> 0,      cap |-> 10],
    [hi |-> 4,  lo |-> 2, yearReturn |-> 30,     cap |-> 6000] }

\* marketData: kind "ok" is a populated object, "empty" is {} (the script
\* found no OHLCV rows).  sharesOutstanding = 0 stands for an absent field.
MarketRec(k, p, sh, so) ==
  [kind |-> k, currentPrice |-> p, marketCap |-> sh.cap,
   sharesOutstanding |-> so, high52w |-> (p \div 4) * sh.hi,
   low52w |-> (p \div 4) * sh.lo,
   yearReturn |-> sh.yearReturn]

NoShape == [hi |-> 0, lo |-> 0, yearReturn |-> 0, cap |-> 0]

EmptyMarket == MarketRec("empty", 0, NoShape, 0)

\* What MarketDataService.fetch can resolve to: the script emits 'shares',
\* never 'sharesOutstanding'.
FetchedMarkets ==
  {MarketRec("ok", p, sh, 0) : p \in PriceVals, sh \in MarketShapes}
  \cup {EmptyMarket}

\* balanceSheetData as a caller of analyzeAll may attach it.
NoSheet ==
  [present |-> FALSE, currentAssets |-> 0, fixedAssets |-> 0,
   totalLiabilities |-> 0, sharesOutstanding |-> 0]

BalanceSheets ==
  { NoSheet,
    [present |-> TRUE, currentAssets |-> 30000000, fixedAssets |-> 5000000,
     totalLiabilities |-> 20000000, sharesOutstanding |-> 0],
    [present |-> TRUE, currentAssets |-> 10000000, fixedAssets |-> 0,
     totalLiabilities |-> 20000000, sharesOutstanding |-> 1000000] }

NoCashFlow == [present |-> FALSE, capitalExpenditures |-> 0, fcf |-> 0]

CashFlows ==
  { NoCashFlow,
    [present |-> TRUE, capitalExpenditures |-> 0 - 40, fcf |-> 5] }

NoGrowth == [present |-> FALSE, epsGrowth3yCagr |-> 0, revenueGrowthEst |-> 0]

NoEfficiency == [present |-> FALSE, roe |-> 0, profitMarginEst |-> 0]

-----------------------------------------------------------------------------
(* DataFetcher: derived metrics (data-fetcher.ts)                          *)

\* calculateGrowthMetrics, the fields the strategies read, in hundredths.
\* epsGrowth3yCagr: (Math.pow(current / threeYearsAgo, 1/3) - 1) * 100,
\* rounded to 2 decimals, null (0 here, both falsy) when an EPS is not
\* positive or the rate is 0.  revenueGrowthEst: epsGrowth1y * 0.8, rounded
\* to 2 decimals; 10 for a history shorter than two years.
calculateGrowthMetrics(fd) ==
  IF Len(fd) >= 2
  THEN LET current == fd[1].eps
           previous == fd[2].eps
           threeyearsAgo == fd[Min2(2, Len(fd) - 1) + 1].eps
           r == RootQ(current, threeyearsAgo, 3)
       IN [present |-> TRUE,
           epsGrowth3yCagr |->
             IF threeyearsAgo > 0 /\ current > 0
             THEN Round((r[1] - r[2]) * 10000, r[2])
             ELSE 0,
           revenueGrowthEst |->
             IF previous > 0 THEN Round((current - previous) * 8000, previous)
             ELSE 0]
  ELSE [present |-> TRUE, epsGrowth3yCagr |-> 0, revenueGrowthEst |-> 1000]

\* calculateEfficiencyMetrics (for a non-empty array), in hundredths:
\* roe = bps > 0 ? eps / bps * 100 : 10, profitMarginEst = min(roe * 0.5, 15),
\* each rounded to 2 decimals.
calculateEfficiencyMetrics(fd) ==
  LET current == fd[1]
  IN [present |-> TRUE,
      roe |-> IF current.bps > 0 THEN Round(current.eps * 10000, current.bps)
              ELSE 1000,
      profitMarginEst |->
        IF current.bps > 0
        THEN Min2(Round(current.eps * 5000, current.bps), 1500)
        ELSE 500]

\* calculateEfficiencyMetrics reads current.bps of financialData[0]: a
\* TypeError when the array is empty.
calculateEfficiencyMetricsThrows(fd) == Len(fd) = 0

\* The AnalysisResult built by fetchAll (fields the strategies read).
AnalysisResult(md, fd, sd, ti, gm, em, bs, cf) ==
  [marketData |-> md, financialData |-> fd, supplyDemand |-> sd,
   technicalIndicators |-> ti, growthMetrics |-> gm,
   efficiencyMetrics |-> em, balanceSheetData |-> bs, cashFlowData |-> cf]

-----------------------------------------------------------------------------
(* Strategies.  Each analyze() reads financialData[0]; with an empty array *)
(* currentFund is undefined and the first property read throws TypeError.  *)

currentFund(d) == d.financialData[1]

currentPrice(d) == d.marketData.currentPrice

analyzeThrows(d) == Len(d.financialData) = 0

\* BaseAnalyzer.calculateUpside(fairValue, currentPrice) > t, for a fair
\* value in thousandths: ((fairValue - currentPrice) / currentPrice) * 100,
\* or 0 when currentPrice <= 0.  Every comparison with NaN is false.
UpsideAbove(fairValue, price, t) ==
  IF price <= 0 THEN 0 > t
  ELSE ~IsNaN(fairValue) /\ fairValue - 1000 * price > 10 * t * price

\* Number(x.toFixed(2)) for x = n / d, d > 0, in hundredths when n is the
\* numerator times 100: nearest, halves away from zero.
ToFixed2(n, d) == IF n >= 0 THEN Round(n, d) ELSE 0 - Round(0 - n, d)

(* ---- Lynch (lynch.ts) ---- *)

\* calculateEPSGrowthRate, in hundredths of a percent.
calculateEPSGrowthRate(d) ==
  LET h == d.financialData
      gm == d.growthMetrics
  IN IF gm.present /\ Truthy(gm.epsGrowth3yCagr) THEN gm.epsGrowth3yCagr
     ELSE IF Len(h) >= 3 /\ h[Min2(2, Len(h) - 1) + 1].eps > 0 /\ h[1].eps > 0
          THEN LET years == Min2(3, Len(h) - 1)
                   r == RootQ(h[1].eps, h[Min2(2, Len(h) - 1) + 1].eps, years)
               IN Round((r[1] - r[2]) * 10000, r[2])
          ELSE 1000

\* classifyCompany with the asset test ahead of the growth tests.
classifyCompanyAssetFirst(growthRate, fund) ==
  IF fund.per < 1000 /\ fund.pbr < 100 THEN "Asset Play"
  ELSE IF growthRate > 2000 THEN "Fast Grower"
  ELSE IF growthRate > 1000 THEN "Stalwart"
  ELSE IF growthRate > 500 THEN "Slow Grower"
  ELSE IF growthRate < 0 THEN "Turnaround"
  ELSE "Cyclical"

classifyCompany(growthRate, fund) ==
  IF growthRate > 2000 THEN "Fast Grower"
  ELSE IF growthRate > 1000 THEN "Stalwart"
  ELSE IF growthRate > 500 THEN "Slow Grower"
  ELSE IF fund.per < 1000 /\ fund.pbr < 100 THEN "Asset Play"
  ELSE IF growthRate < 0 THEN "Turnaround"
  ELSE "Cyclical"

\* determineFairPER, in thousandths.
determineFairPER(growthRate, companyType) ==
  LET fairPer == Max2(growthRate * 10, 5000)
  IN CASE companyType = "Fast Grower" -> Min2((fairPer * 3) \div 2, 40000)
       [] companyType = "Stalwart"    -> Min2(fairPer, 20000)
       [] companyType = "Slow Grower" -> Min2((fairPer * 8) \div 10, 12000)
       [] companyType = "Asset Play"  -> 10000
       [] companyType = "Turnaround"  -> 8000
       [] OTHER                       -> Min2(fairPer, 15000)

\* fairValue = Math.round(currentFund.eps * fairPer), in thousandths.
LynchFairValue(d) ==
  LET g == calculateEPSGrowthRate(d)
      fairPer == determineFairPER(g, classifyCompany(g, currentFund(d)))
  IN 1000 * Round(currentFund(d).eps * fairPer, 1000)

\* calculatePEG, in hundredths.
calculatePEG(per, growthRate) ==
  IF growthRate <= 0 THEN 99900 ELSE ToFixed2(per * 100, growthRate)

\* calculateDividendAdjustedPEG, in hundredths.
calculateDividendAdjustedPEG(per, growthRate, dividendYield) ==
  IF growthRate + dividendYield <= 0 THEN 99900
  ELSE ToFixed2(per * 100, growthRate + dividendYield)

\* calculateSalesGrowthRate: calculateEPSGrowthRate(history) * 0.8, called
\* without the growth metrics; in thousandths of a percent.
calculateSalesGrowthRate(d) ==
  calculateEPSGrowthRate([d EXCEPT !.growthMetrics = NoGrowth]) * 8

\* Lynch's calculateDebtToEquity, in hundredths.
LynchDebtToEquity(fund) ==
  IF fund.pbr > 200 THEN 100 ELSE IF fund.pbr > 100 THEN 50 ELSE 30

calculateLynchScore(peg, dividendAdjustedPEG, epsGrowthRate, salesGrowthRate, debtToEquity, companyType) ==
    (IF peg <= 50 THEN 40 ELSE IF peg <= 100 THEN 30
     ELSE IF peg <= 150 THEN 20 ELSE IF peg <= 200 THEN 10 ELSE 0)
  + (IF dividendAdjustedPEG <= 100 THEN 20
     ELSE IF dividendAdjustedPEG <= 150 THEN 10 ELSE 0)
  + (IF epsGrowthRate >= 2000 THEN 15 ELSE IF epsGrowthRate >= 1500 THEN 10
     ELSE IF epsGrowthRate >= 1000 THEN 5 ELSE 0)
  + (IF salesGrowthRate >= 15000 THEN 10
     ELSE IF salesGrowthRate >= 10000 THEN 5 ELSE 0)
  + (IF debtToEquity < 30 THEN 10 ELSE IF debtToEquity < 50 THEN 5 ELSE 0)
  + (IF companyType \in {"Fast Grower", "Stalwart"} THEN 5 ELSE 0)

LynchScore(d) ==
  LET fund == currentFund(d)
      g == calculateEPSGrowthRate(d)
  IN calculateLynchScore(calculatePEG(fund.per, g),
                         calculateDividendAdjustedPEG(fund.per, g, fund.div),
                         g, calculateSalesGrowthRate(d),
                         LynchDebtToEquity(fund), classifyCompany(g, fund))

(* ---- Graham (graham.ts) ---- *)

\* marketData?.sharesOutstanding || 1000000
GrahamShares(d) ==
  IF Truthy(d.marketData.sharesOutstanding)
  THEN d.marketData.sharesOutstanding ELSE 1000000

calculateNCAV(bs) ==
  IF ~bs.present THEN 0 ELSE Max2(bs.currentAssets - bs.totalLiabilities, 0)

\* ncav / sharesOutstanding, in thousandths.
ncavPerShare(d) ==
  LET ncav == calculateNCAV(d.balanceSheetData)
      sh == GrahamShares(d)
  IN (ncav \div sh) * 1000 + ((ncav % sh) * 1000) \div sh

\* ncavPerShare * 0.667, in thousandths.
netNetValue(d) == (ncavPerShare(d) * 667) \div 1000

calculateGrahamNumber(fund) ==
  IF fund.eps > 0 /\ fund.bps > 0
  THEN 1000 * RoundSqrt(45 * fund.eps * fund.bps, 2)
  ELSE 0

calculateLiquidationValue(fund, bs) ==
  IF ~bs.present THEN 1000 * Round(fund.bps * 66, 100)
  ELSE LET shares == IF Truthy(bs.sharesOutstanding)
                     THEN bs.sharesOutstanding ELSE 1000000
       IN 1000 * Round(2 * bs.currentAssets + bs.fixedAssets
                         - 2 * bs.totalLiabilities, 2 * shares)

\* Math.round(eps * (8.5 + 2 * 3))
calculateEarningsValue(fund) == 1000 * Round(fund.eps * 145, 10)

\* The four candidates handed to determineFairValue, in the order of the
\* array literal.
GrahamCandidates(d) ==
  << netNetValue(d),
     calculateGrahamNumber(currentFund(d)),
     calculateLiquidationValue(currentFund(d), d.balanceSheetData),
     calculateEarningsValue(currentFund(d)) >>

SeqMin(S) == CHOOSE m \in S : \A v \in S : m <= v

SeqMax(S) == CHOOSE m \in S : \A v \in S : m >= v

\* determineFairValue without the filter: Math.min over all four values.
determineFairValueUnfiltered(values) ==
  SeqMin({values[i] : i \in 1..Len(values)})

\* determineFairValue: filter(v => v > 0), 0 when nothing is left, else min.
determineFairValue(values) ==
  LET validValues == {values[i] : i \in {j \in 1..Len(values) : values[j] > 0}}
  IN IF validValues = {} THEN 0 ELSE SeqMin(validValues)

GrahamFairValue(d) == determineFairValue(GrahamCandidates(d))

\* Number of criteria of checkDefensiveCriteria that hold.
defensiveScore(fund, md) ==
  Cardinality({c \in 1..7 :
    CASE c = 1 -> md.marketCap > 1000
      [] c = 2 -> TRUE
      [] c = 3 -> fund.eps > 0
      [] c = 4 -> fund.div > 0
      [] c = 5 -> TRUE
      [] c = 6 -> fund.per > 0 /\ fund.per < 1500
      [] c = 7 -> fund.pbr > 0 /\ fund.pbr < 150})

\* Number of criteria of checkEnterprisingCriteria that hold.
enterprisingScore(fund) ==
  Cardinality({c \in 1..5 :
    CASE c = 1 -> fund.per > 0 /\ fund.per < 1000
      [] c = 2 -> fund.pbr > 0 /\ fund.pbr < 120
      [] c = 3 -> fund.div > 400
      [] c = 4 -> fund.eps > 0
      [] c = 5 -> TRUE})

\* calculateGrahamScore with 3 points per defensive criterion.
calculateGrahamScoreThree(fairValue, ncav, defensive, enterprising, price, grahamNumber) ==
    (IF UpsideAbove(fairValue, price, 50) THEN 30
     ELSE IF UpsideAbove(fairValue, price, 33) THEN 25
     ELSE IF UpsideAbove(fairValue, price, 20) THEN 15
     ELSE IF UpsideAbove(fairValue, price, 10) THEN 10 ELSE 0)
  + (IF UpsideAbove(ncav, price, 33) THEN 25
     ELSE IF UpsideAbove(ncav, price, 20) THEN 20
     ELSE IF UpsideAbove(ncav, price, 10) THEN 15
     ELSE IF UpsideAbove(ncav, price, 0) THEN 10 ELSE 0)
  + (IF price * 100000 < grahamNumber * 67 THEN 20
     ELSE IF price * 10000 < grahamNumber * 8 THEN 15
     ELSE IF price * 1000 < grahamNumber THEN 10 ELSE 0)
  + defensive * 3
  + enterprising * 2

\* calculateGrahamScore: the sum is carried in hundredths (2.14 per
\* defensive criterion) and rounded at the end.
calculateGrahamScore(fairValue, ncav, defensive, enterprising, price, grahamNumber) ==
  Round(  (IF UpsideAbove(fairValue, price, 50) THEN 3000
           ELSE IF UpsideAbove(fairValue, price, 33) THEN 2500
           ELSE IF UpsideAbove(fairValue, price, 20) THEN 1500
           ELSE IF UpsideAbove(fairValue, price, 10) THEN 1000 ELSE 0)
        + (IF UpsideAbove(ncav, price, 33) THEN 2500
           ELSE IF UpsideAbove(ncav, price, 20) THEN 2000
           ELSE IF UpsideAbove(ncav, price, 10) THEN 1500
           ELSE IF UpsideAbove(ncav, price, 0) THEN 1000 ELSE 0)
        + (IF price * 100000 < grahamNumber * 67 THEN 2000
           ELSE IF price * 10000 < grahamNumber * 8 THEN 1500
           ELSE IF price * 1000 < grahamNumber THEN 1000 ELSE 0)
        + defensive * 214
        + enterprising * 200,
        100)

GrahamScore(d) ==
  calculateGrahamScore(GrahamFairValue(d), ncavPerShare(d),
                       defensiveScore(currentFund(d), d.marketData),
                       enterprisingScore(currentFund(d)), currentPrice(d),
                       calculateGrahamNumber(currentFund(d)))

(* ---- Greenblatt (greenblatt.ts) ---- *)

\* calculateROIC, percent in hundredths.
calculateROIC(fund) ==
  IF fund.bps * 8 <= 0 THEN 0 ELSE Round(fund.eps * 130000, 8 * fund.bps)

GreenblattTargetYield(roic) ==
  IF roic > 3000 THEN 7
  ELSE IF roic > 2000 THEN 8
  ELSE IF roic > 1500 THEN 9
  ELSE 10

\* calculateGreenblattFairValue: fairValue = eps * (100 / targetYield);
\* above 3 x currentPrice it is replaced by Math.round(currentPrice * 2.5).
calculateGreenblattFairValue(fund, roic, price) ==
  LET targetYield == GreenblattTargetYield(roic)
  IN IF fund.eps * 100 > price * 3 * targetYield
     THEN 1000 * Round(price * 5, 2)
     ELSE 1000 * Round(fund.eps * 100, targetYield)

GreenblattFairValue(d) ==
  calculateGreenblattFairValue(currentFund(d), calculateROIC(currentFund(d)),
                               currentPrice(d))

\* calculateEarningsYield, percent in hundredths:
\* (eps * 1.43 * sharesOutstanding) / (marketCap * 1.3) * 100.  An absent
\* marketCap is not <= 0, and an absent operand makes the result NaN.  The
\* share counts of the model are multiples of 1000.
calculateEarningsYield(fund, md) ==
  IF md.kind = "ok" /\ md.marketCap <= 0 THEN 0
  ELSE IF md.kind # "ok" \/ md.sharesOutstanding = 0 THEN NaN
  ELSE Round(fund.eps * 11 * (md.sharesOutstanding \div 1000),
             md.marketCap * 100)

\* calculateMagicScore
calculateMagicScore(roic, earningsYield) ==
  IF IsNaN(earningsYield) THEN NaN
  ELSE Round(Min2(roic, 5000) + Min2(earningsYield * 2, 5000), 100)

\* getRank: 1 (best) to 5, thresholds in percent.
getRank(value, thresholds) ==
  IF IsNaN(value) THEN 5
  ELSE LET met == {i \in 1..Len(thresholds) : value >= 100 * thresholds[i]}
       IN IF met = {} THEN 5 ELSE 6 - SeqMax(met)

\* calculateRankings(...).combinedRank
combinedRank(roic, earningsYield) ==
  Round(getRank(roic, <<5, 10, 15, 20, 30>>)
          + getRank(earningsYield, <<3, 5, 7, 10, 15>>), 2)

\* calculateQualityMetrics(...).score
GreenblattQualityScore(fund) ==
  20 * Cardinality({c \in 1..5 :
         CASE c = 1 -> fund.eps > 0
           [] c = 2 -> fund.per > 0 /\ fund.per < 2000
           [] c = 3 -> fund.pbr > 0 /\ fund.pbr < 300
           [] c = 4 -> fund.div > 0
           [] c = 5 -> TRUE})

calculateComprehensiveScore(magicScore, rank, qualityScore, fairValue, price) ==
  Round(  (IF IsNaN(magicScore) THEN 0
           ELSE IF magicScore >= 80 THEN 400 ELSE IF magicScore >= 60 THEN 300
           ELSE IF magicScore >= 40 THEN 200
           ELSE IF magicScore >= 20 THEN 100 ELSE 0)
        + (IF rank <= 2 THEN 300 ELSE IF rank <= 3 THEN 200
           ELSE IF rank <= 4 THEN 100 ELSE 0)
        + qualityScore * 2
        + (IF UpsideAbove(fairValue, price, 50) THEN 100
           ELSE IF UpsideAbove(fairValue, price, 30) THEN 70
           ELSE IF UpsideAbove(fairValue, price, 15) THEN 50 ELSE 0),
        10)

GreenblattScore(d) ==
  LET fund == currentFund(d)
      roic == calculateROIC(fund)
      earningsYield == calculateEarningsYield(fund, d.marketData)
  IN calculateComprehensiveScore(calculateMagicScore(roic, earningsYield),
                                 combinedRank(roic, earningsYield),
                                 GreenblattQualityScore(fund),
                                 GreenblattFairValue(d), currentPrice(d))

(* ---- Fisher (fisher.ts) ---- *)

\* Fisher priced at the current price ("참고용으로 현재가만 사용").
FisherFairValuePriced(d) == 1000 * currentPrice(d)

\* const fairValue = 0
FisherFairValue(d) == 0

\* Number of points of evaluateFisherChecklist that hold.  growthMetrics
\* never carries rdIntensity, so (growth.rdIntensity || 3) > 2 holds.
FisherChecklistScore(d) ==
  LET fund == currentFund(d)
      growth == d.growthMetrics
      em == d.efficiencyMetrics
  IN Cardinality({c \in 1..15 :
       CASE c = 1  -> growth.present /\ Truthy(growth.revenueGrowthEst)
                        /\ growth.revenueGrowthEst > 1000
         [] c = 4  -> fund.per > 0 /\ fund.per < 2500
         [] c = 5  -> em.present /\ Truthy(em.profitMarginEst)
                        /\ em.profitMarginEst > 1000
         [] c = 9  -> d.marketData.marketCap > 1000
         [] c = 10 -> fund.pbr > 0 /\ fund.pbr < 300
         [] c = 11 -> em.present /\ Truthy(em.roe) /\ em.roe > 1500
         [] c = 12 -> fund.eps > 0
         [] c = 14 -> fund.div > 0
         [] OTHER  -> TRUE})

\* Fisher's calculateEPSGrowth as the fraction <<n, d>> of hundredths of a
\* percent, or <<NaN, 1>> (a fractional power of a negative ratio).
calculateEPSGrowth(history) ==
  IF Len(history) < 2 THEN <<1000, 1>>
  ELSE LET current == history[1].eps
           p == history[Min2(2, Len(history) - 1) + 1].eps
           previous == IF Truthy(p) THEN p ELSE 1
           years == Min2(3, Len(history) - 1)
       IN IF previous <= 0 THEN <<0, 1>>
          ELSE IF years = 1 THEN <<(current - previous) * 10000, previous>>
          ELSE IF current < 0 THEN <<NaN, 1>>
          ELSE IF current = 0 THEN <<0 - 10000, 1>>
          ELSE LET r == RootQ(current, previous, years)
               IN <<(r[1] - r[2]) * 10000, r[2]>>

\* analyzeGrowthMetrics(...).salesGrowth, in hundredths.
FisherSalesGrowth(d) ==
  LET gm == d.growthMetrics
      g == calculateEPSGrowth(d.financialData)
  IN IF gm.present /\ Truthy(gm.revenueGrowthEst) THEN gm.revenueGrowthEst
     ELSE IF IsNaN(g[1]) THEN NaN
     ELSE Round(g[1] * 8, g[2] * 10)

\* analyzeGrowthMetrics(...).earningsGrowth, in hundredths.
FisherEarningsGrowth(d) ==
  LET gm == d.growthMetrics
      g == calculateEPSGrowth(d.financialData)
  IN IF gm.present /\ Truthy(gm.epsGrowth3yCagr) THEN gm.epsGrowth3yCagr
     ELSE IF IsNaN(g[1]) THEN NaN
     ELSE Round(g[1], g[2])

\* data.efficiencyMetrics?.roe || 10, in hundredths.
FisherROE(d) ==
  IF d.efficiencyMetrics.present /\ Truthy(d.efficiencyMetrics.roe)
  THEN d.efficiencyMetrics.roe ELSE 1000

evaluateManagementQuality(d) ==
  LET fund == currentFund(d)
      roe == FisherROE(d)
  IN (IF roe > 2000 THEN 40 ELSE IF roe > 1500 THEN 30
      ELSE IF roe > 1000 THEN 20 ELSE IF roe > 500 THEN 10 ELSE 0)
   + (IF fund.div > 300 THEN 20 ELSE IF fund.div > 200 THEN 15
      ELSE IF fund.div > 100 THEN 10 ELSE IF fund.div > 0 THEN 5 ELSE 0)
   + (IF fund.eps > 0 /\ fund.per < 2000 THEN 20
      ELSE IF fund.eps > 0 /\ fund.per < 3000 THEN 10 ELSE 0)
   + (IF fund.pbr < 200 THEN 20 ELSE IF fund.pbr < 300 THEN 10 ELSE 0)

\* evaluateInnovation with rdIntensity = 3 (data.growthMetrics?.rdIntensity
\* || 3): not > 3, but > 2.
evaluateInnovation(d) == 40

evaluateCompetitiveAdvantage(d) ==
  LET fund == currentFund(d)
      marketCap == d.marketData.marketCap
      roe == FisherROE(d)
  IN Min2(  (IF marketCap > 10000 THEN 30 ELSE IF marketCap > 5000 THEN 20
             ELSE IF marketCap > 1000 THEN 10 ELSE 0)
          + (IF roe > 2000 THEN 30 ELSE IF roe > 1500 THEN 20
             ELSE IF roe > 1000 THEN 10 ELSE 0)
          + (IF fund.per > 2000 THEN 20 ELSE IF fund.per > 1500 THEN 10 ELSE 0)
          + (IF fund.pbr > 200 THEN 20 ELSE IF fund.pbr > 150 THEN 10 ELSE 0),
          100)

evaluateLongTermPotential(salesGrowth, innovation, competitive) ==
  LET growthScore == IF IsNaN(salesGrowth) THEN 10
                     ELSE IF salesGrowth > 1500 THEN 40
                     ELSE IF salesGrowth > 1000 THEN 30
                     ELSE IF salesGrowth > 500 THEN 20 ELSE 10
  IN Round(growthScore * 10 + innovation * 3 + competitive * 3, 10)

\* calculateFisherScore: the sum is carried in sixtieths
\* (checklist / 15 * 40, * 0.15, * 0.1, * 0.05) and rounded at the end.
calculateFisherScore(checklistScore, earningsGrowth, managementQuality, innovationScore, competitiveAdvantage, longTermPotential) ==
  Round(  checklistScore * 160
        + 60 * (IF IsNaN(earningsGrowth) THEN 0
                ELSE IF earningsGrowth > 2000 THEN 25
                ELSE IF earningsGrowth > 1500 THEN 20
                ELSE IF earningsGrowth > 1000 THEN 15
                ELSE IF earningsGrowth > 500 THEN 10 ELSE 0)
        + managementQuality * 9
        + innovationScore * 6
        + competitiveAdvantage * 3
        + longTermPotential * 3,
        60)

FisherScore(d) ==
  calculateFisherScore(FisherChecklistScore(d), FisherEarningsGrowth(d),
                       evaluateManagementQuality(d), evaluateInnovation(d),
                       evaluateCompetitiveAdvantage(d),
                       evaluateLongTermPotential(FisherSalesGrowth(d),
                                                 evaluateInnovation(d),
                                                 evaluateCompetitiveAdvantage(d)))

(* ---- Templeton (templeton.ts) ---- *)

calculate52WeekPosition(md) ==
  IF ~Truthy(md.high52w) \/ ~Truthy(md.low52w) THEN 50
  ELSE LET range == md.high52w - md.low52w
       IN IF range <= 0 THEN 50
          ELSE Max2(0, Min2(100,
                 Round((md.currentPrice - md.low52w) * 100, range)))

\* The indicators of evaluateContrarianIndicators that calculatePessimismScore
\* reads.
evaluateContrarianIndicators(fund, md, pricePosition) ==
  [ near52WeekLow         |-> pricePosition < 25,
    down50PercentFromHigh |-> pricePosition < 50,
    veryLowPER            |-> fund.per > 0 /\ fund.per < 700,
    deepValuePBR          |-> fund.pbr > 0 /\ fund.pbr < 70,
    deepNegativeReturn    |-> md.yearReturn < 0 - 20,
    exceptionalDividend   |-> fund.div > 600,
    extremeFear           |-> pricePosition < 20 /\ fund.per < 1000,
    panicSelling          |-> pricePosition < 15 /\ md.yearReturn < 0 - 30,
    profitableButCheap    |-> fund.eps > 0 /\ fund.per < 800,
    cashRichButCheap      |-> fund.pbr < 100 /\ fund.div > 300 ]

calculatePessimismScore(ind) ==
  Min2(100,
       (IF ind.near52WeekLow THEN 15 ELSE 0)
     + (IF ind.down50PercentFromHigh THEN 10 ELSE 0)
     + (IF ind.veryLowPER THEN 15 ELSE 0)
     + (IF ind.deepValuePBR THEN 15 ELSE 0)
     + (IF ind.deepNegativeReturn THEN 20 ELSE 0)
     + (IF ind.exceptionalDividend THEN 10 ELSE 0)
     + (IF ind.extremeFear THEN 10 ELSE 0)
     + (IF ind.panicSelling THEN 5 ELSE 0)
     + (IF ind.profitableButCheap THEN 5 ELSE 0)
     + (IF ind.cashRichButCheap THEN 5 ELSE 0))

evaluateGlobalRelativeValue(fund) ==
  Min2(100,
       20
     + (IF fund.per > 0
        THEN (IF fund.per < 900 THEN 30
              ELSE IF fund.per < 1260 THEN 20
              ELSE IF fund.per < 1800 THEN 10 ELSE 0)
        ELSE 0)
     + (IF fund.pbr > 0
        THEN (IF fund.pbr < 100 THEN 25
              ELSE IF fund.pbr < 140 THEN 15
              ELSE IF fund.pbr < 200 THEN 10 ELSE 0)
        ELSE 0)
     + (IF fund.div > 500 THEN 25
        ELSE IF fund.div > 375 THEN 15
        ELSE IF fund.div > 250 THEN 10 ELSE 0))

assessValueTrapRisk(fund, history) ==
  Min2(100,
       (IF Len(history) >= 3 /\ history[1].eps < history[2].eps
                             /\ history[2].eps < history[3].eps
        THEN 30 ELSE 0)
     + (IF fund.eps <= 0 THEN 25 ELSE 0)
     + (IF fund.pbr < 50 THEN 15 ELSE 0)
     + (IF fund.per < 0 THEN 20 ELSE 0)
     + (IF fund.div > 800 THEN 10 ELSE 0))

\* basePER with a value-trap discount of up to one half.
TempletonBasePERHalved(pessimismScore, valueTrapRisk, globalValue) ==
  LET b0 == IF pessimismScore > 80 THEN 180000
            ELSE IF pessimismScore > 60 THEN 150000
            ELSE IF pessimismScore > 40 THEN 130000
            ELSE 120000
      b1 == IF valueTrapRisk > 70 THEN (b0 * 50) \div 100
            ELSE IF valueTrapRisk > 50 THEN (b0 * 85) \div 100
            ELSE b0
  IN IF globalValue > 70 THEN (b1 * 12) \div 10
     ELSE IF globalValue > 50 THEN (b1 * 11) \div 10
     ELSE b1

\* basePER after the three adjustments, in ten-thousandths.
TempletonBasePER(pessimismScore, valueTrapRisk, globalValue) ==
  LET b0 == IF pessimismScore > 80 THEN 180000
            ELSE IF pessimismScore > 60 THEN 150000
            ELSE IF pessimismScore > 40 THEN 130000
            ELSE 120000
      b1 == IF valueTrapRisk > 70 THEN (b0 * 70) \div 100
            ELSE IF valueTrapRisk > 50 THEN (b0 * 85) \div 100
            ELSE b0
  IN IF globalValue > 70 THEN (b1 * 12) \div 10
     ELSE IF globalValue > 50 THEN (b1 * 11) \div 10
     ELSE b1

calculateTempletonFairValue(fund, pessimismScore, valueTrapRisk, globalValue) ==
  1000 * Round(fund.eps
                 * TempletonBasePER(pessimismScore, valueTrapRisk, globalValue),
               10000)

TempletonFairValue(d) ==
  LET fund == currentFund(d)
      pricePosition == calculate52WeekPosition(d.marketData)
      ind == evaluateContrarianIndicators(fund, d.marketData, pricePosition)
  IN calculateTempletonFairValue(fund, calculatePessimismScore(ind),
                                 assessValueTrapRisk(fund, d.financialData),
                                 evaluateGlobalRelativeValue(fund))

analyzeCrisisOpportunity(md, pricePosition, pessimismScore) ==
  Min2(100,
       (IF pricePosition < 20 THEN 40 ELSE IF pricePosition < 30 THEN 25
        ELSE IF pricePosition < 40 THEN 15 ELSE 0)
     + (IF pessimismScore > 80 THEN 30 ELSE IF pessimismScore > 60 THEN 20
        ELSE IF pessimismScore > 40 THEN 10 ELSE 0)
     + (IF md.yearReturn < 0 - 40 THEN 30
        ELSE IF md.yearReturn < 0 - 25 THEN 20
        ELSE IF md.yearReturn < 0 - 10 THEN 10 ELSE 0))

\* identifyMarketCycle(...).cycleScore
cycleScore(pricePosition, md) ==
  IF pricePosition < 25 /\ md.yearReturn < 0 - 20 THEN 100
  ELSE IF pricePosition < 40 /\ md.yearReturn < 0 THEN 80
  ELSE IF pricePosition < 60 /\ md.yearReturn < 10 THEN 60
  ELSE IF pricePosition < 80 /\ md.yearReturn < 20 THEN 40
  ELSE 20

\* calculateTempletonScore: the sum is carried in hundredths.
calculateTempletonScore(pessimismScore, globalValue, crisisOpportunity, valueTrapRisk, cycle) ==
  Round(  pessimismScore * 35 + globalValue * 20 + crisisOpportunity * 20
        + (100 - valueTrapRisk) * 15 + cycle * 10,
        100)

TempletonScore(d) ==
  LET fund == currentFund(d)
      pricePosition == calculate52WeekPosition(d.marketData)
      ind == evaluateContrarianIndicators(fund, d.marketData, pricePosition)
      pessimismScore == calculatePessimismScore(ind)
  IN calculateTempletonScore(pessimismScore,
                             evaluateGlobalRelativeValue(fund),
                             analyzeCrisisOpportunity(d.marketData,
                                                      pricePosition,
                                                      pessimismScore),
                             assessValueTrapRisk(fund, d.financialData),
                             cycleScore(pricePosition, d.marketData))

(* ---- Buffett (buffett.ts) ---- *)
(* 1 + growth is a fraction <<x, y>> (y > 0), or <<NaN, 1>>.  The discount   *)
(* factors of calculateDCFValue are carried with eight decimals and their   *)
(* sum with seven; products wider than 31 bits are formed from 4-digit      *)
(* halves.                                                                  *)

\* calculateOwnerEarnings, in hundredths:
\* max(eps + eps * 0.17 - |capitalExpenditures || eps * 0.3| * 0.5, 0).
calculateOwnerEarnings(fund, cf) ==
  LET maintenanceCapEx == IF cf.present /\ Truthy(cf.capitalExpenditures)
                          THEN Abs(cf.capitalExpenditures) * 50
                          ELSE Abs(fund.eps) * 15
  IN Max2(fund.eps * 117 - maintenanceCapEx, 0)

\* cashFlowData?.fcf || 0
calculateFCF(cf) == IF cf.present /\ Truthy(cf.fcf) THEN cf.fcf ELSE 0

\* 1 + calculateRetainedEarningsGrowth(history)
calculateRetainedEarningsGrowth(history) ==
  IF Len(history) < 2 THEN <<11, 10>>
  ELSE LET e1 == history[Len(history)].eps
           e0 == history[1].eps
           firstEps == IF Truthy(e1) THEN e1 ELSE 1
           lastEps == IF Truthy(e0) THEN e0 ELSE 1
           years == Max2(Len(history) - 1, 1)
       IN IF firstEps > 0
          THEN (IF years = 1 THEN <<lastEps, firstEps>>
                ELSE IF lastEps < 0 THEN <<NaN, 1>>
                ELSE RootQ(lastEps, firstEps, years))
          ELSE <<11, 10>>

\* 1 + Math.min(retainedEarningsGrowth, 0.15)
BuffettGrowthRate(history) ==
  LET f == calculateRetainedEarningsGrowth(history)
  IN IF IsNaN(f[1]) THEN f
     ELSE IF f[1] * 100 > 115 * f[2] THEN <<115, 100>> ELSE f

\* ownerEarnings > 0 ? ownerEarnings : fcf, in hundredths.
BuffettValueBase(d) ==
  LET ownerEarnings == calculateOwnerEarnings(currentFund(d), d.cashFlowData)
  IN IF ownerEarnings > 0 THEN ownerEarnings
     ELSE 100 * calculateFCF(d.cashFlowData)

\* marketData?.sharesOutstanding || 1
BuffettShares(d) ==
  IF Truthy(d.marketData.sharesOutstanding)
  THEN d.marketData.sharesOutstanding ELSE 1

\* n / d with eight decimals (d > 0), by long division in 4-digit steps.
Div8(n, d) ==
  LET r0 == n % d
      r1 == (r0 * 10000) % d
  IN (n \div d) * 100000000 + ((r0 * 10000) \div d) * 10000
       + Round(r1 * 10000, d)

\* Product of two numbers with eight decimals, from 4-digit halves.
Mul8(p, q) ==
  LET ph == p \div 10000
      pl == p % 10000
      qh == q \div 10000
      ql == q % 10000
  IN ph * qh + Round(ph * ql + pl * qh + Round(pl * ql, 10000), 10000)

\* ((1 + growthRate) / (1 + discountRate)) ^ year, eight decimals.
RECURSIVE DiscountedGrowth(_, _)
DiscountedGrowth(q, year) ==
  IF year = 0 THEN 100000000 ELSE Mul8(DiscountedGrowth(q, year - 1), q)

RECURSIVE SumDiscounted(_, _)
SumDiscounted(q, year) ==
  IF year = 0 THEN 0
  ELSE SumDiscounted(q, year - 1) + Round(DiscountedGrowth(q, year), 10)

\* dcfValue / fcf of calculateDCFValue, seven decimals: the ten yearly
\* present values plus the terminal value (1.03 / (0.08 - 0.03) = 20.6).
DCFMultiple(f) ==
  LET q == Div8(25 * f[1], 27 * f[2])
      p10 == DiscountedGrowth(q, 10)
  IN SumDiscounted(q, 10)
       + (p10 \div 10000) * 20600 + Round((p10 % 10000) * 206, 100)

\* a * K / 1000000 from 3- and 4-digit parts.  With a = 7 * base (base in
\* hundredths) and K with seven decimals this is 0.7 * base * K in
\* ten-thousandths.
ScaleDCF(a, K) ==
  LET ah == a \div 1000
      al == a % 1000
      Kh == K \div 10000
      Kl == K % 10000
  IN ah * Kh * 10 + Round(ah * Kl, 1000) + Round(al * Kh, 100)
       + Round(al * Kl, 1000000)

\* Math.round(calculateDCFValue(valueBase, growthRate, 0.08, shares) * 0.7),
\* in thousandths.  A non-positive valueBase is replaced by 1000000000.
BuffettFairValue(d) ==
  LET f == BuffettGrowthRate(d.financialData)
      base == BuffettValueBase(d)
      shares == BuffettShares(d)
      K == DCFMultiple(f)
  IN IF IsNaN(f[1]) THEN NaN
     ELSE IF base <= 0
     THEN 1000 * Round(ScaleDCF(700 * (1000000000 \div shares), K), 10000)
     ELSE 1000 * Round(Round(ScaleDCF(7 * base, K), 10000), shares)

\* calculateROE, percent with four decimals.
calculateROE(fund) ==
  IF fund.bps <= 0 THEN 100000 ELSE Round(fund.eps * 1000000, fund.bps)

\* calculateAverageROE, percent with four decimals.
calculateAverageROE(history) ==
  LET roes == SelectSeq([i \in 1..Len(history) |-> calculateROE(history[i])],
                        LAMBDA r : r > 0)
  IN IF Len(roes) > 0 THEN Round(SumSeq(roes), Len(roes)) ELSE 100000

\* Buffett's calculateDebtToEquity, in hundredths.
BuffettDebtToEquity(fund) ==
  IF ~Truthy(fund.bps) THEN 50 ELSE IF fund.pbr > 100 THEN 30 ELSE 50

\* fcfYield > t, with fcfYield = currentPrice > 0 ?
\* (fcf / (marketData?.marketCap || 1)) * 100 : 0.
FcfYieldAbove(d, t) ==
  LET bound == (calculateFCF(d.cashFlowData) * 100 - 1) \div t
  IN IF currentPrice(d) > 0
     THEN (IF Truthy(d.marketData.marketCap)
           THEN d.marketData.marketCap <= bound \div 100000000
           ELSE 1 <= bound)
     ELSE FALSE

\* calculateBuffettQualityScore with netMargin 15, grossMargin 30 and
\* currentRatio 1.5 (the constants calculateMargins and calculateCurrentRatio
\* return).
BuffettQualityScore(d) ==
  LET roe == calculateAverageROE(d.financialData)
      debtToEquity == BuffettDebtToEquity(currentFund(d))
      f == calculateRetainedEarningsGrowth(d.financialData)
  IN (IF roe >= 200000 THEN 30 ELSE IF roe >= 150000 THEN 20
      ELSE IF roe >= 100000 THEN 10 ELSE 0)
   + (IF debtToEquity < 50 THEN 20 ELSE IF debtToEquity < 100 THEN 10 ELSE 0)
   + (IF FcfYieldAbove(d, 10) THEN 15 ELSE IF FcfYieldAbove(d, 5) THEN 10
      ELSE IF FcfYieldAbove(d, 3) THEN 5 ELSE 0)
   + 10
   + 5
   + 5
   + (IF IsNaN(f[1]) THEN 0
      ELSE IF f[1] * 100 > 115 * f[2] THEN 5
      ELSE IF f[1] * 100 > 110 * f[2] THEN 3 ELSE 0)

\* getBuffettRecommendation(qualityScore, marginOfSafety), the margin being
\* calculateUpside(fairValue, currentPrice).
getBuffettRecommendation(qualityScore, fairValue, price) ==
  IF qualityScore >= 70 /\ UpsideAbove(fairValue, price, 20) THEN "Strong Buy"
  ELSE IF qualityScore >= 50 /\ UpsideAbove(fairValue, price, 0) THEN "Buy"
  ELSE IF qualityScore >= 30 THEN "Hold"
  ELSE IF qualityScore >= 20 THEN "Sell"
  ELSE "Strong Sell"

\* The inputs whose Buffett value the model's integers can hold: with the
\* 1000000000 default base the per-share value needs a share count.
BuffettInRange(d) ==
  \/ analyzeThrows(d)
  \/ IsNaN(BuffettGrowthRate(d.financialData)[1])
  \/ BuffettValueBase(d) > 0
  \/ BuffettShares(d) >= 1000000

-----------------------------------------------------------------------------
(* GuruAnalyzers (analyzers/index.ts) *)

\* The array literal handed to Promise.all in analyzeAll.
Strategies ==
  <<"buffett", "lynch", "graham", "greenblatt", "fisher", "templeton">>

StrategyNames == {Strategies[i] : i \in 1..Len(Strategies)}

NotRun ==
  [status |-> "notRun", fairValue |-> 0, candidates |-> <<>>, score |-> 0]

Threw ==
  [status |-> "threw", fairValue |-> 0, candidates |-> <<>>, score |-> 0]

Returned(fv, c, sc) ==
  [status |-> "ok", fairValue |-> fv, candidates |-> c, score |-> sc]

\* strategy.analyze(data): the returned analysis (its fairValue, its
\* composite score, and for Graham the four candidate values it reports),
\* or the TypeError.
analyze(s, d) ==
  IF analyzeThrows(d) THEN Threw
  ELSE CASE s = "buffett" ->
              Returned(BuffettFairValue(d), <<>>, BuffettQualityScore(d))
         [] s = "lynch" ->
              Returned(LynchFairValue(d), <<>>, LynchScore(d))
         [] s = "graham" ->
              Returned(GrahamFairValue(d), GrahamCandidates(d), GrahamScore(d))
         [] s = "greenblatt" ->
              Returned(GreenblattFairValue(d), <<>>, GreenblattScore(d))
         [] s = "fisher" ->
              Returned(FisherFairValue(d), <<>>, FisherScore(d))
         [] s = "templeton" ->
              Returned(TempletonFairValue(d), <<>>, TempletonScore(d))

\* The AnalysisResult after strategy.analyze(data) with splice(0, 3) in
\* place of slice(0, 3) in Buffett's calculateAveragePER.
dataAfterAnalyzeSpliced(s, d) ==
  IF s = "buffett" /\ ~analyzeThrows(d)
  THEN [d EXCEPT !.financialData = SubSeq(@, 4, Len(@))]
  ELSE d

\* The AnalysisResult after strategy.analyze(data): the strategies only
\* read it (history.slice(0, 3) and map / filter work on copies).
dataAfterAnalyze(s, d) == d

\* weights.push(0.20) for buffett and graham, weights.push(0.15) for the
\* others, in units of 0.05.
PushedWeight(s) == IF s \in {"buffett", "graham"} THEN 4 ELSE 3

\* if (data.valuations.X?.fairValue) { push }: the strategies whose value is
\* pushed, in the order of the if chain.
Pushed(v) == SelectSeq(Strategies, LAMBDA s : Truthy(v[s].fairValue))

ConsensusFairValues(v) ==
  [i \in 1..Len(Pushed(v)) |-> v[Pushed(v)[i]].fairValue]

ConsensusWeights(v) ==
  [i \in 1..Len(Pushed(v)) |-> PushedWeight(Pushed(v)[i])]

RECURSIVE Insert(_, _)
Insert(x, q) ==
  IF q = <<>> THEN <<x>>
  ELSE IF x <= Head(q) THEN <<x>> \o q
  ELSE <<Head(q)>> \o Insert(x, Tail(q))

\* [...values].sort((a, b) => a - b)
RECURSIVE Sorted(_)
Sorted(q) == IF q = <<>> THEN <<>> ELSE Insert(Head(q), Sorted(Tail(q)))

\* median with the even case not halved.
medianNotHalved(values) ==
  LET sorted == Sorted(values)
      mid == Len(sorted) \div 2
  IN IF Len(sorted) % 2 = 1 THEN sorted[mid + 1]
     ELSE 1000 * Round(sorted[mid] + sorted[mid + 1], 1000)

median(values) ==
  LET sorted == Sorted(values)
      mid == Len(sorted) \div 2
  IN IF Len(sorted) % 2 = 1 THEN sorted[mid + 1]
     ELSE 1000 * Round(sorted[mid] + sorted[mid + 1], 2000)

\* calculateUpside, percent in hundredths.
calculateUpside(fairValue, price) ==
  IF price <= 0 THEN 0 ELSE Round((fairValue - 1000 * price) * 10, price)

NoValuation ==
  [present |-> FALSE, weightedAverage |-> 0, median |-> 0, conservative |-> 0,
   optimistic |-> 0, currentPrice |-> 0, upsideWeighted |-> 0,
   upsideMedian |-> 0, upsideConservative |-> 0, upsideOptimistic |-> 0]

\* calculateComprehensiveValuation that also counts the weighted average
\* already stored on the object among the values.
calculateComprehensiveValuationCarried(v, md, previous) ==
  LET carried == IF previous.present THEN <<previous.weightedAverage>>
                 ELSE <<>>
      fairValues == ConsensusFairValues(v) \o carried
      weights == ConsensusWeights(v) \o [i \in 1..Len(carried) |-> 3]
      weightedSum ==
        SumSeq([i \in 1..Len(fairValues) |-> fairValues[i] * weights[i]])
      totalWeight == SumSeq(weights)
      weightedAverage == 1000 * Round(weightedSum, 1000 * totalWeight)
      values == {fairValues[i] : i \in 1..Len(fairValues)}
      price == md.currentPrice
  IN IF Len(fairValues) > 0
     THEN [present |-> TRUE,
           weightedAverage |-> weightedAverage,
           median |-> median(fairValues),
           conservative |-> SeqMin(values),
           optimistic |-> SeqMax(values),
           currentPrice |-> price,
           upsideWeighted |-> calculateUpside(weightedAverage, price),
           upsideMedian |-> calculateUpside(median(fairValues), price),
           upsideConservative |-> calculateUpside(SeqMin(values), price),
           upsideOptimistic |-> calculateUpside(SeqMax(values), price)]
     ELSE previous

\* calculateComprehensiveValuation: data.comprehensiveValuation is assigned
\* only when something was pushed; otherwise it keeps its previous value.
calculateComprehensiveValuation(v, md, previous) ==
  LET fairValues == ConsensusFairValues(v)
      weights == ConsensusWeights(v)
      weightedSum ==
        SumSeq([i \in 1..Len(fairValues) |-> fairValues[i] * weights[i]])
      totalWeight == SumSeq(weights)
      weightedAverage == 1000 * Round(weightedSum, 1000 * totalWeight)
      values == {fairValues[i] : i \in 1..Len(fairValues)}
      price == md.currentPrice
  IN IF Len(fairValues) > 0
     THEN [present |-> TRUE,
           weightedAverage |-> weightedAverage,
           median |-> median(fairValues),
           conservative |-> SeqMin(values),
           optimistic |-> SeqMax(values),
           currentPrice |-> price,
           upsideWeighted |-> calculateUpside(weightedAverage, price),
           upsideMedian |-> calculateUpside(median(fairValues), price),
           upsideConservative |-> calculateUpside(SeqMin(values), price),
           upsideOptimistic |-> calculateUpside(SeqMax(values), price)]
     ELSE previous

-----------------------------------------------------------------------------
(* Input domains of the two entry points *)

\* What FinancialDataService.fetch can resolve with on the fetchAll path
\* (no cash-flow data, no share count there).
FetchedFinancials ==
  {fd \in FinancialArrays :
     BuffettInRange(AnalysisResult(EmptyMarket, fd, "null", "empty",
                                   NoGrowth, NoEfficiency, NoSheet,
                                   NoCashFlow))}

\* AnalysisResult objects a caller hands to analyzeAll directly.
CallerMarkets ==
  {MarketRec("ok", p, sh, so) :
     p \in PriceVals, sh \in MarketShapes, so \in {0, 1000000}}
  \cup {EmptyMarket}

CallerData ==
  {d \in {AnalysisResult(md, fd, "data", "data", NoGrowth, NoEfficiency,
                          bs, cf) :
            md \in CallerMarkets, fd \in FinancialArrays,
            bs \in BalanceSheets, cf \in CashFlows} :
     BuffettInRange(d)}

NoData ==
  AnalysisResult(EmptyMarket, <<>>, "null", "empty", NoGrowth, NoEfficiency,
                 NoSheet, NoCashFlow)

NoFetch ==
  [marketDone |-> FALSE, marketData |-> EmptyMarket,
   financialDone |-> FALSE, financialData |-> <<>>,
   supplyDone |-> FALSE, supplyDemand |-> "null",
   technicalDone |-> FALSE, technicalIndicators |-> "empty",
   error |-> "none"]

NoResults == [s \in StrategyNames |-> NotRun]

\* Calls of analyzeAll on one AnalysisResult object in the model.
MaxRuns == 2

NoRun ==
  [runs |-> 0, valuations |-> NoResults, comprehensiveValuation |-> NoValuation]

\* The AnalysisResult objects of the repeated-run specification: histories
\* of at most one year.
OrderData == {d \in CallerData : Len(d.financialData) <= 1}

-----------------------------------------------------------------------------
(* getFinancialData (api/stock-data.js): the values the sources answer    *)
(* with and the object built from them.  per, pbr and the ratios are in   *)
(* thousandths where they come from a source and in hundredths in the     *)
(* returned object (toFixed(2)); 0 stands for a field the answer lacks.   *)

\* currentPrice of getStockPrice: Math.round(regularMarketPrice).
ApiPrices == {1000, 70000}

\* datas[0] of the Naver answer, or null (no data, or the request failed).
NaverNull ==
  [kind |-> "null", per |-> 0, nPer |-> 0, pbr |-> 0, nPbr |-> 0, eps |-> 0]

NaverAnswers ==
  {[kind |-> "data", per |-> a, nPer |-> b, pbr |-> c, nPbr |-> 0, eps |-> e] :
     a \in {0, 8456}, b \in {0, 12000}, c \in {0, 1234}, e \in {0, 5000}}
  \cup {NaverNull}

\* quoteSummary.result[0] of the Yahoo answer, or none.
YahooNone ==
  [kind |-> "none", trailingPE |-> 0, priceToBook |-> 0,
   epsTrailingTwelveMonths |-> 0, returnOnEquity |-> 0, debtToEquity |-> 0,
   revenueGrowth |-> 0, operatingMargins |-> 0]

YahooAnswers ==
  {[kind |-> "stats", trailingPE |-> a, priceToBook |-> b,
    epsTrailingTwelveMonths |-> c, returnOnEquity |-> d, debtToEquity |-> e,
    revenueGrowth |-> f, operatingMargins |-> g] :
     a \in {0, 21346}, b \in {0, 876}, c \in {0, 4321}, d \in {0, 123},
     e \in {0, 55554}, f \in {0, 0 - 46}, g \in {0, 87}}
  \cup {YahooNone}

NoFinancial ==
  [kind |-> "none", currentPrice |-> 0, per |-> 0, pbr |-> 0, eps |-> 0,
   roe |-> 0, debtRatio |-> 0, revenueGrowth |-> 0, operatingMargin |-> 0]

\* a || b for numbers.
Or2(a, b) == IF Truthy(a) THEN a ELSE b

\* The object built from the Naver answer.
naverFinancial(priceData, nd) ==
  LET per == Or2(nd.per, Or2(nd.nPer, 15000))
      pbr == Or2(nd.pbr, Or2(nd.nPbr, 1500))
      eps == Or2(nd.eps, Round(priceData * 1000, per))
  IN  [kind |-> "naver", currentPrice |-> priceData,
       per |-> ToFixed2(per, 10), pbr |-> ToFixed2(pbr, 10), eps |-> eps,
       roe |-> ToFixed2(eps * pbr * 10, priceData),
       debtRatio |-> 4000, revenueGrowth |-> 500, operatingMargin |-> 1000]

\* The object built from the Yahoo quoteSummary answer.
yahooFinancial(priceData, st) ==
  LET per == Or2(st.trailingPE, 15000)
      pbr == Or2(st.priceToBook, 1500)
      eps == Or2(st.epsTrailingTwelveMonths, Round(priceData * 1000, per))
      roe == IF Truthy(st.returnOnEquity) THEN st.returnOnEquity * 100
             ELSE 10000
      debtRatio == Or2(st.debtToEquity, 40000)
      revenueGrowth == IF Truthy(st.revenueGrowth) THEN st.revenueGrowth * 100
                       ELSE 5000
      operatingMargin == IF Truthy(st.operatingMargins)
                         THEN st.operatingMargins * 100 ELSE 10000
  IN  [kind |-> "yahoo", currentPrice |-> priceData,
       per |-> ToFixed2(per, 10), pbr |-> ToFixed2(pbr, 10), eps |-> eps,
       roe |-> ToFixed2(roe, 10), debtRatio |-> ToFixed2(debtRatio, 10),
       revenueGrowth |-> ToFixed2(revenueGrowth, 10),
       operatingMargin |-> ToFixed2(operatingMargin, 10)]

\* Every source failed: values computed from the price.
computedFinancial(priceData) ==
  [kind |-> "computed", currentPrice |-> priceData, per |-> 1500,
   pbr |-> 150, eps |-> Round(priceData, 15), roe |-> 1000,
   debtRatio |-> 4000, revenueGrowth |-> 500, operatingMargin |-> 1000]

\* The object of the catch block.
finalFallback ==
  [kind |-> "fallback", currentPrice |-> 50000, per |-> 1500, pbr |-> 150,
   eps |-> 3333, roe |-> 1000, debtRatio |-> 4000, revenueGrowth |-> 500,
   operatingMargin |-> 1000]

\* if (naverData), mutated: the Naver answer is never taken.
naverUsableNever(nd) == FALSE

\* if (naverData)
naverUsable(nd) == nd.kind = "data"

\* if (statsResponse.data?.quoteSummary?.result?.[0])
statsUsable(st) == st.kind = "stats"

\* An entry of the log of outbound requests: a request is sent (op "call")
\* or its answer is back (op "ret", usable: the caller takes the answer).
Event(op, src, usable) == [op |-> op, src |-> src, usable |-> usable]

FinIdle ==
  [pc |-> "idle", log |-> <<>>, priceData |-> 0, result |-> NoFinancial]

-----------------------------------------------------------------------------
(* PythonExecutor.execute (services/python-executor.ts): what the child   *)
(* process does and what execute makes of it.  Text is a sequence of      *)
(* characters over a small alphabet: a blank, the brackets of a JSON      *)
(* array, a digit, and a character no JSON document contains.             *)

\* timeout of execAsync, in milliseconds.
timeout == 15000

\* How long the child runs when nothing stops it, in milliseconds.
Durations == {2000, 20000}

ExitCodes == {0, 1}

Chars == {" ", "[", "]", "1", "x"}

\* Longest stdout of the child in the model.
MaxStdout == 4

Stdouts == UNION {[1..n -> Chars] : n \in 0..MaxStdout}

RECURSIVE SkipWs(_, _)
\* The first position from i on that holds no blank (Len + 1 when none).
SkipWs(s, i) ==
  IF i <= Len(s) /\ s[i] = " " THEN SkipWs(s, i + 1) ELSE i

RECURSIVE SkipWsBack(_, _)
SkipWsBack(s, i) ==
  IF i >= 1 /\ s[i] = " " THEN SkipWsBack(s, i - 1) ELSE i

\* stdout.trim()
Trim(s) == SubSeq(s, SkipWs(s, 1), SkipWsBack(s, Len(s)))

RECURSIVE SkipDigits(_, _)
SkipDigits(s, i) ==
  IF i <= Len(s) /\ s[i] = "1" THEN SkipDigits(s, i + 1) ELSE i

RECURSIVE ParseValue(_, _)
\* JSON.parse reading one value from position i: the position after the
\* value, or 0 for a SyntaxError.
ParseValue(s, i) ==
  IF i > Len(s) THEN 0
  ELSE IF s[i] = "1" THEN SkipDigits(s, i)
  ELSE IF s[i] = "["
  THEN LET j == SkipWs(s, i + 1)
       IN  IF j > Len(s) THEN 0
           ELSE IF s[j] = "]" THEN j + 1
           ELSE LET k == ParseValue(s, j)
                    m == SkipWs(s, k)
                IN  IF k # 0 /\ m <= Len(s) /\ s[m] = "]" THEN m + 1 ELSE 0
  ELSE 0

\* JSON.parse(text) returns: one value, with nothing but blanks around it.
JSONParses(s) ==
  LET k == ParseValue(s, SkipWs(s, 1))
  IN  k # 0 /\ SkipWs(s, k) = Len(s) + 1

NotBlank(c) == c # " "

\* The value JSON.parse returns, written without blanks.
JSONValue(s) == SelectSeq(s, NotBlank)

\* execAsync rejects, mutated: only a child killed at the timeout counts.
execRejectsKilledOnly(elapsed, code) == elapsed > timeout

\* execAsync rejects when the child was killed at the timeout or exited
\* with a code other than 0.
execRejects(elapsed, code) == elapsed > timeout \/ code # 0

ExecIdle ==
  [pc |-> "idle", elapsed |-> 0, code |-> 0, stdout |-> <<>>,
   value |-> <<>>, error |-> "none"]

-----------------------------------------------------------------------------
(* handler and checkRateLimit (api/mcp.ts) *)

RATE_LIMIT == 60

WINDOW_MS == 60000

\* Math.ceil(n / d) for n >= 0, d > 0.
Ceil(n, d) == (n + d - 1) \div d

\* clientIp of the requests.
Ips == {"203.0.113.7"}

\* Milliseconds between two readings of Date.now() that differ.
TickMs == 30000

\* The clock of the model stops after this many ticks.
MaxTicks == 3

\* The data functions of stock-data a tool calls.
Outbound ==
  {"searchTicker", "getMarketData", "getFinancialData",
   "getTechnicalIndicators", "getSupplyDemand", "calculateDCF", "searchPeers"}

\* The first await of each tool of tools/call.
FirstCalls(tool) ==
  CASE tool = "search_ticker" -> <<"searchTicker">>
    [] tool = "analyze_equity" -> <<"getMarketData", "getFinancialData">>
    [] tool = "get_financial_data" -> <<"getFinancialData">>
    [] tool = "get_technical_indicators" -> <<"getTechnicalIndicators">>
    [] tool = "calculate_dcf" -> <<"calculateDCF">>
    [] tool = "get_supply_demand" -> <<"getSupplyDemand">>
    [] tool = "compare_peers" -> <<"searchPeers">>

Tools ==
  {"search_ticker", "analyze_equity", "get_financial_data",
   "get_technical_indicators", "calculate_dcf", "get_supply_demand",
   "compare_peers"}

\* The requests: HTTP method, JSON-RPC method ("nobody": no body), tool
\* name, whether the required string argument is there, report_type.
Requests ==
  {[http |-> h, rpc |-> "none", tool |-> "none", argsOk |-> FALSE,
    report |-> "quick"] : h \in {"OPTIONS", "GET", "PUT"}}
  \cup {[http |-> "POST", rpc |-> m, tool |-> "none", argsOk |-> FALSE,
         report |-> "quick"] :
          m \in {"nobody", "initialize", "ping", "tools/list", "other"}}
  \cup {[http |-> "POST", rpc |-> "tools/call", tool |-> t, argsOk |-> a,
         report |-> "quick"] :
          t \in Tools \cup {"unknown"}, a \in BOOLEAN}
  \cup {[http |-> "POST", rpc |-> "tools/call", tool |-> "analyze_equity",
         argsOk |-> TRUE, report |-> r] : r \in {"summary", "full"}}

\* The filter with a window that still counts a request exactly WINDOW_MS
\* old.
validRequestsInclusive(userRequests, now) ==
  SelectSeq(userRequests, LAMBDA time : now - time <= WINDOW_MS)

\* userRequests.filter(time => now - time < WINDOW_MS)
validRequests(userRequests, now) ==
  SelectSeq(userRequests, LAMBDA time : now - time < WINDOW_MS)

\* checkRateLimit that, on a denial, stores the denied request in place of
\* the oldest counted one.
checkRateLimitPostponing(userRequests, now) ==
  LET valid == SelectSeq(userRequests, LAMBDA time : now - time < WINDOW_MS)
  IN  IF Len(valid) >= RATE_LIMIT
      THEN [allowed |-> FALSE, remaining |-> 0,
            resetTime |-> Ceil(valid[1] + WINDOW_MS, 1000),
            requests |-> Append(Tail(valid), now)]
      ELSE [allowed |-> TRUE, remaining |-> RATE_LIMIT - (Len(valid) + 1),
            resetTime |-> Ceil(now + WINDOW_MS, 1000),
            requests |-> Append(valid, now)]

\* checkRateLimit(ip): the returned object and, in requests, the array
\* requestCounts holds for ip afterwards.
checkRateLimit(userRequests, now) ==
  LET valid == validRequests(userRequests, now)
  IN  IF Len(valid) >= RATE_LIMIT
      THEN [allowed |-> FALSE, remaining |-> 0,
            resetTime |-> Ceil(valid[1] + WINDOW_MS, 1000),
            requests |-> userRequests]
      ELSE [allowed |-> TRUE, remaining |-> RATE_LIMIT - (Len(valid) + 1),
            resetTime |-> Ceil(now + WINDOW_MS, 1000),
            requests |-> Append(valid, now)]

\* if (!rateLimit.allowed) left out: every request goes on.
admittedAlways(rateLimit) == TRUE

\* The request goes on past if (!rateLimit.allowed).
admitted(rateLimit) == rateLimit.allowed

\* Math.max(1, Math.ceil((rateLimit.resetTime * 1000 - Date.now()) / 1000))
retryAfter(resetTime, now) ==
  Max2(1, IF resetTime * 1000 - now >= 0
          THEN Ceil(resetTime * 1000 - now, 1000) ELSE 0)

NoResponse == [status |-> 0, body |-> "none", retryAfter |-> 0]

ReqIdle ==
  [pc |-> "idle", now |-> 0, requestCounts |-> [ip \in Ips |-> <<>>],
   log |-> <<>>, allowed |-> FALSE, remaining |-> 0, resetTime |-> 0,
   tool |-> "none", report |-> "quick", stage |-> 0, response |-> NoResponse]

\* res.status(status).json(body) and return.
Respond(r, status, body) ==
  [r EXCEPT !.pc = "responded", !.tool = "none", !.report = "quick",
            !.stage = 0,
            !.response = [status |-> status, body |-> body,
                          retryAfter |-> IF status = 429
                                         THEN retryAfter(r.resetTime, r.now)
                                         ELSE 0]]

\* A tool awaits its next data calls.
Await(r, tool, report, stage, calls) ==
  [r EXCEPT !.pc = "awaiting", !.tool = tool, !.report = report,
            !.stage = stage, !.log = @ \o calls]

\* The handler after the rate-limit headers, for an admitted request.
dispatch(r, q) ==
  IF q.http = "OPTIONS" THEN Respond(r, 200, "none")
  ELSE IF q.http = "GET" THEN Respond(r, 200, "info")
  ELSE IF q.http # "POST" THEN Respond(r, 405, "Method not allowed")
  ELSE IF q.rpc = "nobody" THEN Respond(r, 500, "Internal error")
  ELSE IF q.rpc \in {"initialize", "ping", "tools/list"}
  THEN Respond(r, 200, q.rpc)
  ELSE IF q.rpc # "tools/call" THEN Respond(r, 400, "Method not found")
  ELSE IF q.tool \notin Tools \/ ~q.argsOk THEN Respond(r, 200, "toolError")
  ELSE Await(r, q.tool, q.report, 1, FirstCalls(q.tool))

\* The tool's pending await settles; ok: no awaited call answered an error.
settle(r, ok) ==
  IF r.tool # "analyze_equity"
  THEN Respond(r, 200, IF ok THEN "text" ELSE "toolError")
  ELSE IF r.stage = 1
  THEN IF ~ok THEN Respond(r, 200, "toolError")
       ELSE IF r.report # "quick"
       THEN Await(r, r.tool, r.report, 2,
                  <<"getTechnicalIndicators", "getSupplyDemand">>)
       ELSE Await(r, r.tool, r.report, 3, <<"calculateDCF">>)
  ELSE IF r.stage = 2
  THEN IF ~ok THEN Respond(r, 200, "toolError")
       ELSE Await(r, r.tool, r.report, 3, <<"calculateDCF">>)
  ELSE Respond(r, 200, "text")

-----------------------------------------------------------------------------
(* Computations of single strategies on inputs of their own *)

NoCalc == [op |-> "none"]

\* Concurrent calls of PythonExecutor.execute.  The callers are the four
\* fetches of DataFetcher.fetchAll; each passes a script of its own, named
\* here after its caller, and a script prints the output named after it.
Callers == {"marketData", "financialData", "supplyDemand",
            "technicalIndicators"}

\* Values of Date.now() while the calls are in flight.
MaxClock == 1

\* path.join(tempDir, `mcp_python_${Date.now()}.py`): one name per
\* millisecond.
tempFileAt(now) == now

NoFile == 0 - 1

NoCall ==
  [pc |-> "idle", tempFile |-> NoFile, ran |-> "none", result |-> "none"]

PoolIdle ==
  [now |-> 0, files |-> <<>>, calls |-> [c \in Callers |-> NoCall]]

\* compare_peers with peer_tickers given by the caller.  per, pbr and div
\* are in hundredths.
MainTicker == "005930"

PeerLists ==
  { <<"000660">>, <<"000660", "066570">>, <<"005930", "000660">>,
    <<"066570", "000660">> }

\* What the two fetches of one company resolve with, after the || 0
\* defaults: a company with a PER, one with a PBR only, and one with a
\* price but neither PER nor PBR.
CompanyAnswers ==
  { [currentPrice |-> 1000, marketCap |-> 6000, per |-> 1200, pbr |-> 150,
     eps |-> 640, div |-> 200],
    [currentPrice |-> 36, marketCap |-> 10, per |-> 0, pbr |-> 80,
     eps |-> 0 - 10, div |-> 0],
    [currentPrice |-> 4, marketCap |-> 10, per |-> 0, pbr |-> 0,
     eps |-> 0 - 10, div |-> 0] }

NoAnswer ==
  [currentPrice |-> 0, marketCap |-> 0, per |-> 0, pbr |-> 0, eps |-> 0,
   div |-> 0]

\* The object literal built from a ticker and the fetched values.
companyRecord(t, a) ==
  [ticker |-> t, currentPrice |-> a.currentPrice, marketCap |-> a.marketCap,
   per |-> a.per, pbr |-> a.pbr, eps |-> a.eps, div |-> a.div]

\* A catch block that answers with a record the filter lets through.
peerFailedKept(t) ==
  [ticker |-> t, currentPrice |-> 0, marketCap |-> 0, per |-> 100,
   pbr |-> 0, eps |-> 0, div |-> 0]

\* The record of the catch block: every value 0.
peerFailed(t) == companyRecord(t, NoAnswer)

\* finalPeerTickers.filter(t => t !== ticker)
peerCompanies(peer_tickers, ticker) ==
  SelectSeq(peer_tickers, LAMBDA t : t # ticker)

\* [mainCompany] followed by results.filter(r => r.per > 0 || r.pbr > 0)
comparisonData(mainCompany, records) ==
  <<mainCompany>> \o SelectSeq(records, LAMBDA r : r.per > 0 \/ r.pbr > 0)

\* averages of the analysis: Math.round(avg * 100) / 100 for per, pbr, div.
averages(comparison) ==
  [per |-> Round(SumSeq([i \in 1..Len(comparison) |-> comparison[i].per]),
                 Len(comparison)),
   pbr |-> Round(SumSeq([i \in 1..Len(comparison) |-> comparison[i].pbr]),
                 Len(comparison)),
   div |-> Round(SumSeq([i \in 1..Len(comparison) |-> comparison[i].div]),
                 Len(comparison))]

NoAnalysis ==
  [kind |-> "none", comparison |-> <<>>,
   averages |-> [per |-> 0, pbr |-> 0, div |-> 0]]

\* tasks[i] is the async function mapped over peerCompanies[i]: state
\* "pending", "data", "rejected" or "timeout", the values its fetches
\* resolved with, and the record it returned.
CmpIdle ==
  [pc |-> "idle", peer_tickers |-> <<>>, mainCompany |-> "none",
   peers |-> <<>>, tasks |-> <<>>, result |-> NoAnalysis]

\* The instants at which Date.now() is read by checkRateLimit and by the
\* cleanup timer, in milliseconds from the first one.
Instants == <<0, 1, 60000, 60001>>

NoTime == 0 - 1

NoDecision ==
  [decided |-> FALSE, ip |-> "none", allowed |-> FALSE, remaining |-> 0,
   resetTime |-> 0, before |-> <<>>, deniedSince |-> NoTime]

\* requestCounts is the Map of the module (an absent key reads as []).
\* admissions and deniedSince are history: the admission times of each ip
\* that are less than WINDOW_MS old, and the oldest of them at the moment
\* the ip's request was denied (NoTime once a request is admitted).
LimIdle ==
  [at |-> 1, requestCounts |-> [ip \in Ips |-> <<>>],
   admissions |-> [ip \in Ips |-> <<>>],
   deniedSince |-> [ip \in Ips |-> NoTime], last |-> NoDecision]

-----------------------------------------------------------------------------
(* State *)

VARIABLES
  pc,                     \* position of the request
  fetch,                  \* fetchAll: the four Promise.all tasks
  data,                   \* the AnalysisResult
  results,                \* analyzeAll: outcome of each strategy.analyze
  started,                \* analyzeAll: strategies already called
  valuations,             \* data.valuations
  comprehensiveValuation, \* data.comprehensiveValuation
  previousRun,            \* what the previous analyzeAll on this data stored
  fin,                    \* getFinancialData (api/stock-data.js): one call
  exec,                   \* PythonExecutor.execute: one call
  req,                    \* api/mcp.ts: the clock, requestCounts, the request
  calc,                   \* a strategy's computation: its inputs and results
  pool,                   \* concurrent PythonExecutor.execute calls, temp files
  cmp,                    \* StockAnalyzerServer.comparePeers: one call
  lim                     \* api/mcp.ts: checkRateLimit calls on one instance

vars ==
  <<pc, fetch, data, results, started, valuations, comprehensiveValuation,
    previousRun, fin, exec, req, calc, pool, cmp, lim>>

\* The state after construction, apart from calc.
InitCore ==
  /\ pc = "idle"
  /\ fetch = NoFetch
  /\ data = NoData
  /\ results = NoResults
  /\ started = 0
  /\ valuations = NoResults
  /\ comprehensiveValuation = NoValuation
  /\ previousRun = NoRun
  /\ fin = FinIdle
  /\ exec = ExecIdle
  /\ req = ReqIdle
  /\ pool = PoolIdle
  /\ cmp = CmpIdle
  /\ lim = LimIdle

Init ==
  /\ InitCore
  /\ calc = NoCalc

-----------------------------------------------------------------------------
(* DataFetcher.fetchAll (data-fetcher.ts) *)

\* fetchAll is called: the four fetches are started.
FetchAllStart ==
  /\ pc = "idle"
  /\ pc' = "fetching"
  /\ UNCHANGED <<fetch, data, results, started, valuations,
                 comprehensiveValuation>>
  /\ UNCHANGED <<previousRun, fin, exec, req, calc, pool, cmp,
                 lim>>

\* A rejected task (or a throw after the await) ends in the catch block,
\* which rethrows "데이터 수집 실패: " + error.message.
FetchAllThrow(cause) ==
  /\ pc' = "fetchFailed"
  /\ fetch' = [fetch EXCEPT !.error = cause]
  /\ UNCHANGED <<data, results, started, valuations, comprehensiveValuation>>

\* MarketDataService.fetch settles: the script's JSON (which is {} when no
\* OHLCV row was found), or PythonExecutor.execute throws.
FetchMarket ==
  /\ pc = "fetching"
  /\ ~fetch.marketDone
  /\ \/ \E md \in FetchedMarkets :
          /\ fetch' = [fetch EXCEPT !.marketDone = TRUE, !.marketData = md]
          /\ UNCHANGED <<pc, data, results, started, valuations,
                         comprehensiveValuation>>
     \/ FetchAllThrow("market")
  /\ UNCHANGED <<previousRun, fin, exec, req, calc, pool, cmp,
                 lim>>

\* FinancialDataService.fetch settles: the array (possibly empty), or
\* PythonExecutor.execute throws.
FetchFinancial ==
  /\ pc = "fetching"
  /\ ~fetch.financialDone
  /\ \/ \E fd \in FetchedFinancials :
          /\ fetch' = [fetch EXCEPT !.financialDone = TRUE,
                                    !.financialData = fd]
          /\ UNCHANGED <<pc, data, results, started, valuations,
                         comprehensiveValuation>>
     \/ FetchAllThrow("financial")
  /\ UNCHANGED <<previousRun, fin, exec, req, calc, pool, cmp,
                 lim>>

\* SupplyDemandService.fetch settles: it catches the executor's error and
\* resolves with null.
FetchSupply ==
  /\ pc = "fetching"
  /\ ~fetch.supplyDone
  /\ \E sd \in {"data", "null"} :
       fetch' = [fetch EXCEPT !.supplyDone = TRUE, !.supplyDemand = sd]
  /\ UNCHANGED <<pc, data, results, started, valuations,
                 comprehensiveValuation>>
  /\ UNCHANGED <<previousRun, fin, exec, req, calc, pool, cmp,
                 lim>>

\* MarketDataService.fetchTechnicalIndicators settles.
FetchTechnical ==
  /\ pc = "fetching"
  /\ ~fetch.technicalDone
  /\ \/ \E ti \in {"data", "empty"} :
          /\ fetch' = [fetch EXCEPT !.technicalDone = TRUE,
                                    !.technicalIndicators = ti]
          /\ UNCHANGED <<pc, data, results, started, valuations,
                         comprehensiveValuation>>
     \/ FetchAllThrow("technical")
  /\ UNCHANGED <<previousRun, fin, exec, req, calc, pool, cmp,
                 lim>>

\* Promise.race in place of Promise.all: the await resumes with the first
\* fulfilled task.
AnyFulfilled(f) ==
  \/ f.marketDone \/ f.financialDone
  \/ f.supplyDone \/ f.technicalDone

\* await Promise.all([...]) resumes once each of the four tasks is fulfilled.
AllFulfilled(f) ==
  /\ f.marketDone /\ f.financialDone
  /\ f.supplyDone /\ f.technicalDone

\* All four settled: the metrics are computed and the AnalysisResult is
\* returned with valuations: {}.  calculateEfficiencyMetrics reads
\* financialData[0].bps, which throws on an empty array.
FetchAllJoin ==
  /\ pc = "fetching"
  /\ AllFulfilled(fetch)
  /\ IF calculateEfficiencyMetricsThrows(fetch.financialData)
     THEN FetchAllThrow("TypeError")
     ELSE /\ pc' = "snapshot"
          /\ data' = AnalysisResult(fetch.marketData, fetch.financialData,
                                    fetch.supplyDemand,
                                    fetch.technicalIndicators,
                                    calculateGrowthMetrics(fetch.financialData),
                                    calculateEfficiencyMetrics(
                                      fetch.financialData),
                                    NoSheet, NoCashFlow)
          /\ UNCHANGED <<fetch, results, started, valuations,
                         comprehensiveValuation>>
  /\ UNCHANGED <<previousRun, fin, exec, req, calc, pool, cmp,
                 lim>>

-----------------------------------------------------------------------------
(* GuruAnalyzers.analyzeAll (analyzers/index.ts) *)

\* analyzeAll(data) on the AnalysisResult fetchAll returned.
AnalyzeAllFetched ==
  /\ pc = "snapshot"
  /\ pc' = "analyzing"
  /\ UNCHANGED <<fetch, data, results, started, valuations,
                 comprehensiveValuation>>
  /\ UNCHANGED <<previousRun, fin, exec, req, calc, pool, cmp,
                 lim>>

\* analyzeAll(data) on an AnalysisResult the caller built itself.
AnalyzeAllCaller ==
  /\ pc = "idle"
  /\ \E d \in CallerData : data' = d
  /\ pc' = "analyzing"
  /\ UNCHANGED <<fetch, results, started, valuations, comprehensiveValuation>>
  /\ UNCHANGED <<previousRun, fin, exec, req, calc, pool, cmp,
                 lim>>

\* The next element of the Promise.all array literal is evaluated: the
\* strategy's async analyze runs to its return or to its TypeError (a
\* rejected promise), and the following elements are still evaluated.
RunStrategy ==
  /\ pc = "analyzing"
  /\ started < Len(Strategies)
  /\ started' = started + 1
  /\ results' = [results EXCEPT ![Strategies[started + 1]] =
                                  analyze(Strategies[started + 1], data)]
  /\ data' = dataAfterAnalyze(Strategies[started + 1], data)
  /\ UNCHANGED <<pc, fetch, valuations, comprehensiveValuation>>
  /\ UNCHANGED <<previousRun, fin, exec, req, calc, pool, cmp,
                 lim>>

\* await Promise.all settles.  With any rejected element analyzeAll rejects
\* at the await: nothing is stored.  Otherwise data.valuations is assigned
\* and calculateComprehensiveValuation runs.
AnalyzeJoin ==
  /\ pc = "analyzing"
  /\ started = Len(Strategies)
  /\ IF \E s \in StrategyNames : results[s].status = "threw"
     THEN /\ pc' = "rejected"
          /\ UNCHANGED <<valuations, comprehensiveValuation>>
     ELSE /\ pc' = "done"
          /\ valuations' = results
          /\ comprehensiveValuation' =
               calculateComprehensiveValuation(results, data.marketData,
                                               comprehensiveValuation)
  /\ UNCHANGED <<fetch, data, results, started>>
  /\ UNCHANGED <<previousRun, fin, exec, req, calc, pool, cmp,
                 lim>>

-----------------------------------------------------------------------------
(* StockAnalyzerServer.analyzeEquity (server.ts) *)

\* fetchBasic and FinancialDataService.fetch are joined; a thrown fetch, a
\* marketData.error or a missing / zero currentPrice ends in the catch
\* block, which answers "Analysis failed: ...".  Otherwise a report is built.
AnalyzeEquity ==
  /\ pc = "idle"
  /\ \/ \E md \in FetchedMarkets, fd \in FetchedFinancials :
          /\ data' = AnalysisResult(md, fd, "null", "empty", NoGrowth,
                                    NoEfficiency, NoSheet, NoCashFlow)
          /\ pc' = IF ~Truthy(md.currentPrice) THEN "equityFailed"
                   ELSE "equityReport"
     \/ /\ pc' = "equityFailed"
        /\ UNCHANGED data
  /\ UNCHANGED <<fetch, results, started, valuations, comprehensiveValuation>>
  /\ UNCHANGED <<previousRun, fin, exec, req, calc, pool, cmp,
                 lim>>

-----------------------------------------------------------------------------

Next ==
  \/ FetchAllStart
  \/ FetchMarket
  \/ FetchFinancial
  \/ FetchSupply
  \/ FetchTechnical
  \/ FetchAllJoin
  \/ AnalyzeAllFetched
  \/ AnalyzeAllCaller
  \/ RunStrategy
  \/ AnalyzeJoin
  \/ AnalyzeEquity

Spec == Init /\ [][Next]_vars

-----------------------------------------------------------------------------
(* Repeated runs.  analyzeAll is called again on the same AnalysisResult,   *)
(* and the six promises handed to Promise.all settle in any order: the      *)
(* results are taken from the array Promise.all resolves with, by position. *)

AnalyzeAllOrder ==
  /\ pc = "idle"
  /\ \E d \in OrderData : data' = d
  /\ pc' = "analyzing"
  /\ UNCHANGED <<fetch, results, started, valuations, comprehensiveValuation>>
  /\ UNCHANGED <<previousRun, fin, exec, req, calc, pool, cmp,
                 lim>>

\* One of the six promises settles.
SettleStrategy ==
  /\ pc = "analyzing"
  /\ \E s \in StrategyNames :
       /\ results[s].status = "notRun"
       /\ results' = [results EXCEPT ![s] = analyze(s, data)]
       /\ data' = dataAfterAnalyze(s, data)
  /\ started' = started + 1
  /\ UNCHANGED <<pc, fetch, valuations, comprehensiveValuation>>
  /\ UNCHANGED <<previousRun, fin, exec, req, calc, pool, cmp,
                 lim>>

\* analyzeAll(data) once more on the object the previous call completed on.
AnalyzeAllAgain ==
  /\ pc = "done"
  /\ previousRun.runs + 1 < MaxRuns
  /\ previousRun' = [runs |-> previousRun.runs + 1,
                     valuations |-> valuations,
                     comprehensiveValuation |-> comprehensiveValuation]
  /\ pc' = "analyzing"
  /\ results' = NoResults
  /\ started' = 0
  /\ UNCHANGED <<fetch, data, valuations, comprehensiveValuation>>
  /\ UNCHANGED <<fin, exec, req, calc, pool, cmp,
                 lim>>

NextOrder ==
  \/ AnalyzeAllOrder
  \/ SettleStrategy
  \/ AnalyzeJoin
  \/ AnalyzeAllAgain

SpecOrder == Init /\ [][NextOrder]_vars

-----------------------------------------------------------------------------
(* getFinancialData (api/stock-data.js) *)

\* getFinancialData(ticker) is called: it awaits getStockPrice.
GetFinancialData ==
  /\ fin.pc = "idle"
  /\ fin' = [fin EXCEPT !.pc = "price",
                        !.log = <<Event("call", "chart", FALSE)>>]
  /\ UNCHANGED <<pc, fetch, data, results, started, valuations,
                 comprehensiveValuation, previousRun, exec, req, calc, pool, cmp,
                 lim>>

\* getStockPrice settles: with the price, and getNaverFinanceData is
\* awaited, or with an error, which the catch block turns into the final
\* fallback object.
StockPriceSettles ==
  /\ fin.pc = "price"
  /\ \/ \E p \in ApiPrices :
          fin' = [fin EXCEPT !.pc = "naver", !.priceData = p,
                             !.log = @ \o <<Event("ret", "chart", TRUE),
                                            Event("call", "naver", FALSE)>>]
     \/ fin' = [fin EXCEPT !.pc = "returned", !.result = finalFallback,
                           !.log = Append(@, Event("ret", "chart", FALSE))]
  /\ UNCHANGED <<pc, fetch, data, results, started, valuations,
                 comprehensiveValuation, previousRun, exec, req, calc, pool, cmp,
                 lim>>

\* getNaverFinanceData settles (it never throws): its data are returned, or
\* the Yahoo quoteSummary request is awaited.
NaverSettles ==
  /\ fin.pc = "naver"
  /\ \E nd \in NaverAnswers :
       IF naverUsable(nd)
       THEN fin' = [fin EXCEPT !.pc = "returned",
                               !.result = naverFinancial(fin.priceData, nd),
                               !.log = Append(@, Event("ret", "naver", TRUE))]
       ELSE fin' = [fin EXCEPT !.pc = "stats",
                               !.log = @ \o <<Event("ret", "naver",
                                                    nd.kind = "data"),
                                              Event("call", "stats", FALSE)>>]
  /\ UNCHANGED <<pc, fetch, data, results, started, valuations,
                 comprehensiveValuation, previousRun, exec, req, calc, pool, cmp,
                 lim>>

\* The Yahoo quoteSummary request settles: with statistics, without, or
\* with an error (the catch block).
StatsSettles ==
  /\ fin.pc = "stats"
  /\ \/ \E st \in YahooAnswers :
          fin' = [fin EXCEPT !.pc = "returned",
                             !.result = IF statsUsable(st)
                                        THEN yahooFinancial(fin.priceData, st)
                                        ELSE computedFinancial(fin.priceData),
                             !.log = Append(@, Event("ret", "stats",
                                                     statsUsable(st)))]
     \/ fin' = [fin EXCEPT !.pc = "returned", !.result = finalFallback,
                           !.log = Append(@, Event("ret", "stats", FALSE))]
  /\ UNCHANGED <<pc, fetch, data, results, started, valuations,
                 comprehensiveValuation, previousRun, exec, req, calc, pool, cmp,
                 lim>>

NextFinancial ==
  \/ GetFinancialData
  \/ StockPriceSettles
  \/ NaverSettles
  \/ StatsSettles

SpecFinancial == Init /\ [][NextFinancial]_vars

-----------------------------------------------------------------------------
(* PythonExecutor.execute (services/python-executor.ts) *)

\* execute(pythonCode) is called: the script is written to a temporary
\* file and the child process is started, or writeFileSync throws.
Execute ==
  /\ exec.pc = "idle"
  /\ \/ exec' = [exec EXCEPT !.pc = "running"]
     \/ exec' = [exec EXCEPT !.pc = "threw", !.error = "write"]
  /\ UNCHANGED <<pc, fetch, data, results, started, valuations,
                 comprehensiveValuation, previousRun, fin, req, calc, pool, cmp,
                 lim>>

\* The child ends, by itself or killed at the timeout, and execAsync
\* settles: a rejection, an empty output and a SyntaxError of JSON.parse all
\* end in the catch block, which throws "Python 실행 실패: ...".
ChildEnds ==
  /\ exec.pc = "running"
  /\ \E elapsed \in Durations, code \in ExitCodes, stdout \in Stdouts :
       LET cleanOutput == Trim(stdout)
           ended == [exec EXCEPT !.elapsed = elapsed, !.code = code,
                                 !.stdout = stdout]
       IN  exec' =
             IF execRejects(elapsed, code)
             THEN [ended EXCEPT !.pc = "threw", !.error = "exec"]
             ELSE IF cleanOutput = <<>>
             THEN [ended EXCEPT !.pc = "threw", !.error = "empty"]
             ELSE IF ~JSONParses(cleanOutput)
             THEN [ended EXCEPT !.pc = "threw", !.error = "parse"]
             ELSE [ended EXCEPT !.pc = "returned",
                                !.value = JSONValue(cleanOutput)]
  /\ UNCHANGED <<pc, fetch, data, results, started, valuations,
                 comprehensiveValuation, previousRun, fin, req, calc, pool, cmp,
                 lim>>

NextExecute ==
  \/ Execute
  \/ ChildEnds

SpecExecute == Init /\ [][NextExecute]_vars

-----------------------------------------------------------------------------
(* handler (api/mcp.ts) *)

\* A request arrives: checkRateLimit, the rate-limit headers, 429 for a
\* denied request, otherwise the answer or the first await of a tool.
Handler ==
  /\ req.pc = "idle"
  /\ \E ip \in Ips, q \in Requests :
       LET rateLimit == checkRateLimit(req.requestCounts[ip], req.now)
           checked == [req EXCEPT !.requestCounts[ip] = rateLimit.requests,
                                  !.log = <<"checkRateLimit">>,
                                  !.allowed = rateLimit.allowed,
                                  !.remaining = rateLimit.remaining,
                                  !.resetTime = rateLimit.resetTime]
       IN  req' = IF ~admitted(rateLimit)
                  THEN Respond(checked, 429, "Too Many Requests")
                  ELSE dispatch(checked, q)
  /\ UNCHANGED <<pc, fetch, data, results, started, valuations,
                 comprehensiveValuation, previousRun, fin, exec, calc, pool, cmp,
                 lim>>

\* The data calls a tool awaits settle.
ToolSettles ==
  /\ req.pc = "awaiting"
  /\ \E ok \in BOOLEAN : req' = settle(req, ok)
  /\ UNCHANGED <<pc, fetch, data, results, started, valuations,
                 comprehensiveValuation, previousRun, fin, exec, calc, pool, cmp,
                 lim>>

\* The response is out; the next request can arrive.
NextRequest ==
  /\ req.pc = "responded"
  /\ req' = [req EXCEPT !.pc = "idle", !.log = <<>>, !.allowed = FALSE,
                        !.remaining = 0, !.resetTime = 0,
                        !.response = NoResponse]
  /\ UNCHANGED <<pc, fetch, data, results, started, valuations,
                 comprehensiveValuation, previousRun, fin, exec, calc, pool, cmp,
                 lim>>

\* Time passes.
Tick ==
  /\ req.now + TickMs <= MaxTicks * TickMs
  /\ req' = [req EXCEPT !.now = @ + TickMs]
  /\ UNCHANGED <<pc, fetch, data, results, started, valuations,
                 comprehensiveValuation, previousRun, fin, exec, calc, pool, cmp,
                 lim>>

NextHandler ==
  \/ Handler
  \/ ToolSettles
  \/ NextRequest
  \/ Tick

SpecHandler == Init /\ [][NextHandler]_vars

-----------------------------------------------------------------------------
(* LynchAnalyzer.analyze on data whose growthMetrics the caller supplies *)

\* growthMetrics.epsGrowth3yCagr, in hundredths of a percent (0: falsy, the
\* default of 10 % is used).
LynchGrowths ==
  {0 - 500, 0, 300, 500, 501, 800, 1000, 1001, 1500, 2000, 2001, 2100, 3000}

\* The data LynchAnalyzer.analyze is given.
LynchData ==
  {AnalysisResult(MarketRec("ok", 1000, NoShape, 0),
                  <<[eps |-> e, bps |-> 100, per |-> p, pbr |-> b,
                     div |-> 0, nulls |-> {}]>>,
                  "data", "data",
                  [present |-> TRUE, epsGrowth3yCagr |-> g,
                   revenueGrowthEst |-> 0],
                  NoEfficiency, NoSheet, NoCashFlow) :
     e \in {0 - 10, 0, 7, 10, 640}, p \in {0 - 500, 600, 1000, 1500},
     b \in {40, 100}, g \in LynchGrowths}

InitLynch ==
  /\ InitCore
  /\ \E d \in LynchData :
       calc = [op |-> "lynch", done |-> FALSE, data |-> d, growthRate |-> 0,
               companyType |-> "none", fairPer |-> 0, fairValue |-> 0]

\* analyze, steps 1 and 5 to 7: growth rate, company type, fair PER and
\* fair value.
LynchAnalyze ==
  /\ calc.op = "lynch"
  /\ ~calc.done
  /\ LET g == calculateEPSGrowthRate(calc.data)
         t == classifyCompany(g, currentFund(calc.data))
     IN  calc' = [calc EXCEPT !.done = TRUE, !.growthRate = g,
                              !.companyType = t,
                              !.fairPer = determineFairPER(g, t),
                              !.fairValue = LynchFairValue(calc.data)]
  /\ UNCHANGED <<pc, fetch, data, results, started, valuations,
                 comprehensiveValuation, previousRun, fin, exec, req, pool,
                 cmp,
                 lim>>

SpecLynch == InitLynch /\ [][LynchAnalyze]_vars

-----------------------------------------------------------------------------
(* TempletonAnalyzer.calculateTempletonFairValue on scores of its own *)

\* EPS values for which the products with every basePER round alike in
\* exact and in double arithmetic.
TempletonEps == {0 - 10, 0, 7, 12, 333, 640}

TempletonScores == {0, 40, 41, 50, 51, 60, 61, 70, 71, 80, 81, 100}

InitTempleton ==
  /\ InitCore
  /\ \E e \in TempletonEps, p \in TempletonScores,
        v \in {0, 50, 51, 70, 71, 100}, g \in {20, 50, 51, 70, 71, 100} :
       calc = [op |-> "templeton", done |-> FALSE, eps |-> e,
               pessimismScore |-> p, valueTrapRisk |-> v, globalValue |-> g,
               afterPessimism |-> 0, afterRisk |-> 0, basePER |-> 0,
               fairValue |-> 0]

\* calculateTempletonFairValue: basePER after each of the three
\* adjustments, and the fair value.
TempletonValue ==
  /\ calc.op = "templeton"
  /\ ~calc.done
  /\ calc' =
       [calc EXCEPT
          !.done = TRUE,
          !.afterPessimism = TempletonBasePER(calc.pessimismScore, 0, 0),
          !.afterRisk = TempletonBasePER(calc.pessimismScore,
                                         calc.valueTrapRisk, 0),
          !.basePER = TempletonBasePER(calc.pessimismScore,
                                       calc.valueTrapRisk, calc.globalValue),
          !.fairValue =
             calculateTempletonFairValue([eps |-> calc.eps],
                                         calc.pessimismScore,
                                         calc.valueTrapRisk,
                                         calc.globalValue)]
  /\ UNCHANGED <<pc, fetch, data, results, started, valuations,
                 comprehensiveValuation, previousRun, fin, exec, req, pool,
                 cmp,
                 lim>>

SpecTempleton == InitTempleton /\ [][TempletonValue]_vars

-----------------------------------------------------------------------------
(* PythonExecutor.execute called concurrently (python-executor.ts) *)

\* The script stored under a name, "missing" when no such file exists.
fileContent(files, name) ==
  IF name \in DOMAIN files THEN files[name] ELSE "missing"

\* fs.unlinkSync(tempFile); a failure of the deletion is ignored.
unlinkSync(files, name) == [n \in DOMAIN files \ {name} |-> files[n]]

\* execute is called and suspends at its first await import.
PoolExecute(c) ==
  /\ pool.calls[c].pc = "idle"
  /\ pool' = [pool EXCEPT !.calls[c].pc = "importing"]

\* After the imports: the file name is taken from the clock, the wrapped
\* script is written over whatever the name held, and the child is started.
PoolSpawn(c) ==
  /\ pool.calls[c].pc = "importing"
  /\ LET tempFile == tempFileAt(pool.now)
     IN pool' = [pool EXCEPT
                   !.files = [n \in DOMAIN pool.files \cup {tempFile} |->
                                IF n = tempFile THEN c ELSE pool.files[n]],
                   !.calls[c].pc = "spawned",
                   !.calls[c].tempFile = tempFile]

\* The python process opens the file it was started on.
PoolChildReads(c) ==
  /\ pool.calls[c].pc = "spawned"
  /\ pool' = [pool EXCEPT
                !.calls[c].pc = "running",
                !.calls[c].ran = fileContent(pool.files,
                                             pool.calls[c].tempFile)]

\* The child exits with status 0: execAsync resolves, the file is deleted
\* and the output of the script that ran is parsed and returned.
PoolChildSucceeds(c) ==
  /\ pool.calls[c].pc = "running"
  /\ pool.calls[c].ran /= "missing"
  /\ pool' = [pool EXCEPT
                !.files = unlinkSync(pool.files, pool.calls[c].tempFile),
                !.calls[c].pc = "done",
                !.calls[c].result = pool.calls[c].ran]

\* The child exits with another status (python finds no file, the script
\* raises) or is killed at the timeout: execAsync rejects and control
\* passes to the catch block, which throws.
PoolChildFails(c) ==
  /\ pool.calls[c].pc \in {"spawned", "running"}
  /\ pool' = [pool EXCEPT
                !.calls[c].pc = "done",
                !.calls[c].result = "error"]

\* Date.now() advances.
PoolTick ==
  /\ pool.now < MaxClock
  /\ pool' = [pool EXCEPT !.now = pool.now + 1]

NextPool ==
  /\ \/ \E c \in Callers :
          \/ PoolExecute(c)
          \/ PoolSpawn(c)
          \/ PoolChildReads(c)
          \/ PoolChildSucceeds(c)
          \/ PoolChildFails(c)
     \/ PoolTick
  /\ UNCHANGED <<pc, fetch, data, results, started, valuations,
                 comprehensiveValuation, previousRun, fin, exec, req, calc,
                 cmp,
                 lim>>

SpecPool == Init /\ [][NextPool]_vars

-----------------------------------------------------------------------------
(* GreenblattAnalyzer: ROIC, earnings yield and magic score of one record *)

MagicFunds ==
  {[eps |-> e, bps |-> b] : e \in {0 - 640, 0 - 10, 0, 10, 640},
                            b \in {0, 100, 1000, 5000}}

InitMagic ==
  /\ InitCore
  /\ \E f \in MagicFunds, md \in CallerMarkets :
       calc = [op |-> "magic", done |-> FALSE, fund |-> f, marketData |-> md,
               roic |-> 0, earningsYield |-> 0, magicScore |-> 0]

\* Steps 1, 2 and 5 of analyze: roic, earningsYield, magicScore.
MagicScore ==
  /\ calc.op = "magic"
  /\ ~calc.done
  /\ LET roic == calculateROIC(calc.fund)
         earningsYield == calculateEarningsYield(calc.fund, calc.marketData)
     IN calc' = [calc EXCEPT
                   !.done = TRUE,
                   !.roic = roic,
                   !.earningsYield = earningsYield,
                   !.magicScore = calculateMagicScore(roic, earningsYield)]
  /\ UNCHANGED <<pc, fetch, data, results, started, valuations,
                 comprehensiveValuation, previousRun, fin, exec, req, pool,
                 cmp,
                 lim>>

SpecMagic == InitMagic /\ [][MagicScore]_vars

-----------------------------------------------------------------------------
(* BuffettAnalyzer.analyze: quality score and recommendation *)

\* Records with a return on equity of 2.5 percent, without and with a
\* price above book value, and a record without book value.
BuffettWeakFunds ==
  { [eps |-> 10, bps |-> 400, per |-> 600, pbr |-> 100, div |-> 0,
     nulls |-> {}],
    [eps |-> 10, bps |-> 400, per |-> 600, pbr |-> 120, div |-> 0,
     nulls |-> {}],
    [eps |-> 0 - 10, bps |-> 0, per |-> 0, pbr |-> 0, div |-> 0,
     nulls |-> {}] }

BuffettCases ==
  {d \in {AnalysisResult(md, fd, "data", "data", NoGrowth, NoEfficiency,
                          NoSheet, cf) :
            md \in CallerMarkets,
            fd \in {<<f>> : f \in BuffettWeakFunds}
                     \cup {<<f, g>> : f \in BuffettWeakFunds,
                                      g \in BuffettWeakFunds}
                     \cup {x \in FinancialArrays : Len(x) = 1},
            cf \in CashFlows} :
     BuffettInRange(d)}

BuffettRecommendation(d) ==
  getBuffettRecommendation(BuffettQualityScore(d), BuffettFairValue(d),
                           currentPrice(d))

InitBuffett ==
  /\ InitCore
  /\ \E d \in BuffettCases :
       calc = [op |-> "buffett", done |-> FALSE, data |-> d,
               qualityScore |-> 0, recommendation |-> "none"]

\* analyze: qualityScore and recommendation of the returned object.
BuffettAnalyze ==
  /\ calc.op = "buffett"
  /\ ~calc.done
  /\ calc' = [calc EXCEPT
                !.done = TRUE,
                !.qualityScore = BuffettQualityScore(calc.data),
                !.recommendation = BuffettRecommendation(calc.data)]
  /\ UNCHANGED <<pc, fetch, data, results, started, valuations,
                 comprehensiveValuation, previousRun, fin, exec, req, pool,
                 cmp,
                 lim>>

SpecBuffett == InitBuffett /\ [][BuffettAnalyze]_vars

-----------------------------------------------------------------------------
(* checkRateLimit and the cleanup timer (api/mcp.ts) *)

\* The handler calls checkRateLimit(clientIp).
CheckRateLimit(ip) ==
  LET now == Instants[lim.at]
      rateLimit == checkRateLimit(lim.requestCounts[ip], now)
  IN lim' =
       [lim EXCEPT
          !.requestCounts[ip] = rateLimit.requests,
          !.admissions[ip] = IF rateLimit.allowed THEN Append(@, now) ELSE @,
          !.deniedSince[ip] = IF rateLimit.allowed THEN NoTime
                              ELSE IF lim.admissions[ip] = <<>> THEN now
                              ELSE lim.admissions[ip][1],
          !.last = [decided |-> TRUE, ip |-> ip,
                    allowed |-> rateLimit.allowed,
                    remaining |-> rateLimit.remaining,
                    resetTime |-> rateLimit.resetTime,
                    before |-> lim.requestCounts[ip],
                    deniedSince |-> lim.deniedSince[ip]]]

\* The setInterval callback: every array is filtered, an empty one deleted.
Cleanup ==
  /\ \E ip \in Ips : lim.requestCounts[ip] # <<>>
  /\ lim' = [lim EXCEPT
               !.requestCounts =
                  [ip \in Ips |-> validRequests(lim.requestCounts[ip],
                                                Instants[lim.at])],
               !.last = NoDecision]

\* Date.now() moves on to the next instant.
Advance ==
  /\ lim.at < Len(Instants)
  /\ lim' = [lim EXCEPT
               !.at = lim.at + 1,
               !.admissions =
                  [ip \in Ips |->
                     SelectSeq(lim.admissions[ip],
                               LAMBDA t : Instants[lim.at + 1] - t
                                            < WINDOW_MS)],
               !.last = NoDecision]

NextLimiter ==
  /\ \/ \E ip \in Ips : CheckRateLimit(ip)
     \/ Cleanup
     \/ Advance
  /\ UNCHANGED <<pc, fetch, data, results, started, valuations,
                 comprehensiveValuation, previousRun, fin, exec, req, calc,
                 pool, cmp>>

SpecLimiter == Init /\ [][NextLimiter]_vars

-----------------------------------------------------------------------------
(* StockAnalyzerServer.comparePeers (server.ts) *)

\* comparePeers is called with a list of peers and awaits the two fetches
\* of the main company.
ComparePeers ==
  /\ cmp.pc = "idle"
  /\ \E l \in PeerLists :
       cmp' = [cmp EXCEPT !.pc = "main", !.peer_tickers = l]

\* The main company's fetches resolve: mainCompany is built and one task
\* per peer is started.
MainResolves ==
  /\ cmp.pc = "main"
  /\ \E a \in CompanyAnswers :
       LET ps == peerCompanies(cmp.peer_tickers, MainTicker)
       IN cmp' = [cmp EXCEPT
                    !.pc = "peers",
                    !.mainCompany = companyRecord(MainTicker, a),
                    !.peers = ps,
                    !.tasks = [i \in 1..Len(ps) |->
                                 [state |-> "pending", fetched |-> NoAnswer,
                                  record |-> "none"]]]

\* One of the main company's fetches rejects: the outer catch answers with
\* errorResponse.
MainRejects ==
  /\ cmp.pc = "main"
  /\ cmp' = [cmp EXCEPT !.pc = "returned", !.result.kind = "error"]

\* Both fetches of peer i resolve before its timer fires.
PeerResolves(i) ==
  /\ cmp.pc = "peers"
  /\ cmp.tasks[i].state = "pending"
  /\ \E a \in CompanyAnswers :
       cmp' = [cmp EXCEPT
                 !.tasks[i] = [state |-> "data", fetched |-> a,
                               record |-> companyRecord(cmp.peers[i], a)]]

\* A fetch of peer i rejects, or its 10-second timer fires first: the race
\* rejects and the task's catch block returns.
PeerFails(i) ==
  /\ cmp.pc = "peers"
  /\ cmp.tasks[i].state = "pending"
  /\ \E how \in {"rejected", "timeout"} :
       cmp' = [cmp EXCEPT
                 !.tasks[i] = [state |-> how, fetched |-> NoAnswer,
                               record |-> peerFailed(cmp.peers[i])]]

\* Promise.all(dataPromises) resolves; the analysis is built and returned.
PeersJoin ==
  /\ cmp.pc = "peers"
  /\ \A i \in 1..Len(cmp.tasks) : cmp.tasks[i].state # "pending"
  /\ LET records == [i \in 1..Len(cmp.tasks) |-> cmp.tasks[i].record]
         comparison == comparisonData(cmp.mainCompany, records)
     IN cmp' = [cmp EXCEPT
                  !.pc = "returned",
                  !.result = [kind |-> "analysis",
                              comparison |-> comparison,
                              averages |-> averages(comparison)]]

NextCompare ==
  /\ \/ ComparePeers
     \/ MainResolves
     \/ MainRejects
     \/ \E i \in 1..Len(cmp.tasks) : PeerResolves(i) \/ PeerFails(i)
     \/ PeersJoin
  /\ UNCHANGED <<pc, fetch, data, results, started, valuations,
                 comprehensiveValuation, previousRun, fin, exec, req, calc,
                 pool, lim>>

SpecCompare == Init /\ [][NextCompare]_vars

-----------------------------------------------------------------------------
(* Properties *)

Settled == pc \in {"done", "rejected"}

Price == data.marketData.currentPrice

\* Strategies whose stored fairValue is > 0, in the order of the if chain.
Positive(v) == SelectSeq(Strategies, LAMBDA s : v[s].fairValue > 0)

\* C1: for an AnalysisResult with currentPrice > 0 for which at least one
\* strategy returned fairValue > 0, the consensus stored by analyzeAll has
\* conservative <= median <= optimistic.
ConsensusOrdered ==
  (/\ pc = "done"
   /\ comprehensiveValuation.present
   /\ Price > 0
   /\ Positive(valuations) # <<>>)
  => /\ comprehensiveValuation.conservative <= comprehensiveValuation.median
     /\ comprehensiveValuation.median <= comprehensiveValuation.optimistic

\* C1 witness: a consensus over an even number of values, one of them a
\* fractional Graham value, with the median strictly between the extremes.
ConsensusOrderedWitness ==
  /\ pc = "done"
  /\ comprehensiveValuation.present
  /\ Price > 0
  /\ Positive(valuations) # <<>>
  /\ Len(Pushed(valuations)) % 2 = 0
  /\ ~IsIntegerM(valuations["graham"].fairValue)
  /\ comprehensiveValuation.conservative < comprehensiveValuation.median
  /\ comprehensiveValuation.median < comprehensiveValuation.optimistic

\* C2: the consensus is computed only over results whose fairValue is > 0;
\* a result whose fairValue is zero or negative contributes neither a value
\* nor a weight.
OnlyPositiveContribute ==
  (pc = "done" /\ comprehensiveValuation.present)
  => /\ Pushed(valuations) = Positive(valuations)
     /\ comprehensiveValuation.conservative > 0

\* C3: the fair value the Greenblatt strategy returns never exceeds
\* 2.5 x currentPrice.
GreenblattCeiling ==
  results["greenblatt"].status = "ok"
  => 2 * results["greenblatt"].fairValue <= 5 * 1000 * Price

\* C4: a strategy that fails during analyzeAll aborts neither its siblings
\* nor the request: analyzeAll completes, and every strategy that returned
\* has its result stored in data.valuations.
StrategyFailureIsolated ==
  Settled
  => /\ pc = "done"
     /\ \A s \in StrategyNames :
          results[s].status = "ok" => valuations[s] = results[s]

\* C5: when the market fetch yields no positive current price, fetchAll
\* fails: no AnalysisResult is returned and no strategy is invoked.
NoSnapshotWithoutPrice ==
  (fetch.marketDone /\ ~(fetch.marketData.currentPrice > 0))
  => /\ pc \in {"fetching", "fetchFailed"}
     /\ started = 0

\* C6: the failure of a non-price group (fundamentals, technical
\* indicators, investor flow) never fails fetchAll: only the market fetch
\* can make it throw.
NonPriceFailureTolerated ==
  pc = "fetchFailed" => fetch.error = "market"

\* C7: with no fundamentals (an empty financialData) but a positive price,
\* all six strategies run and each returns a result; none throws.
MissingFundamentalsAnalyzed ==
  (Len(data.financialData) = 0 /\ Price > 0)
  => /\ \A s \in StrategyNames : results[s].status # "threw"
     /\ Settled => \A s \in StrategyNames : results[s].status = "ok"

\* C8: when no strategy produced a fair value > 0, the consensus is absent
\* after aggregation.
NoUsableValueNoConsensus ==
  (pc = "done" /\ Positive(valuations) = <<>>)
  => ~comprehensiveValuation.present

\* C9: weightedAverage is the sum of nominal weight x fairValue over the
\* contributing strategies (those with fairValue > 0) divided by the sum of
\* their nominal weights (buffett and graham 0.20, the others 0.15),
\* rounded to the nearest integer.
WeightedAverageRenormalised ==
  (pc = "done" /\ comprehensiveValuation.present
     /\ Positive(valuations) # <<>>)
  => LET c == Positive(valuations)
         w == [i \in 1..Len(c) |->
                 IF c[i] \in {"buffett", "graham"} THEN 20 ELSE 15]
         num == SumSeq([i \in 1..Len(c) |->
                          (w[i] \div 5) * valuations[c[i]].fairValue])
         den == SumSeq([i \in 1..Len(c) |-> w[i] \div 5])
     IN comprehensiveValuation.weightedAverage
          = 1000 * Round(num, 1000 * den)

\* C10: the Graham fair value is the minimum of the positive ones among its
\* four candidates (net-net value, Graham number, liquidation value,
\* earnings value); a candidate that is 0 or negative is never adopted, and
\* the fair value is 0 only when no candidate is positive.
GrahamMinOfPositive ==
  results["graham"].status = "ok"
  => LET c == results["graham"].candidates
         fairValue == results["graham"].fairValue
         positive == {c[i] : i \in {j \in 1..Len(c) : c[j] > 0}}
     IN /\ Len(c) = 4
        /\ positive = {} => fairValue = 0
        /\ positive # {} => /\ fairValue \in positive
                            /\ \A v \in positive : fairValue <= v

\* C10 witness: Graham returned a positive fair value although one of its
\* candidates is 0 and another is negative.
GrahamMinOfPositiveWitness ==
  /\ results["graham"].status = "ok"
  /\ results["graham"].fairValue > 0
  /\ \E i, j \in 1..4 : /\ results["graham"].candidates[i] = 0
                        /\ results["graham"].candidates[j] < 0

\* C11: the Fisher strategy returns fairValue = 0 whenever it returns, and
\* "fisher" is never among the strategies whose value enters a stored
\* consensus.
FisherNeverValued ==
  /\ results["fisher"].status = "ok" => results["fisher"].fairValue = 0
  /\ (pc = "done" /\ comprehensiveValuation.present)
     => \A i \in 1..Len(Pushed(valuations)) :
          Pushed(valuations)[i] # "fisher"

\* C11 witness: a consensus was stored from several strategies while the
\* Fisher result is stored next to them.
FisherNeverValuedWitness ==
  /\ pc = "done"
  /\ comprehensiveValuation.present
  /\ valuations["fisher"].status = "ok"
  /\ Len(Pushed(valuations)) >= 4

\* C12: every result a strategy returns has fairValue >= 0.
FairValueNonNegative ==
  \A s \in StrategyNames :
    results[s].status = "ok" => results[s].fairValue >= 0

\* C13: the composite score of every returned result (Buffett qualityScore,
\* Lynch lynchScore, Graham grahamScore, Greenblatt comprehensiveScore,
\* Fisher fisherScore, Templeton templetonScore) lies in [0, 100].
ScoreInRange ==
  \A s \in StrategyNames :
    results[s].status = "ok"
    => results[s].score >= 0 /\ results[s].score <= 100

\* C13 witness: all six strategies returned, one with the score 100 and
\* one with the score 0.
ScoreInRangeWitness ==
  /\ \A s \in StrategyNames : results[s].status = "ok"
  /\ \E s \in StrategyNames : results[s].score = 100
  /\ \E s \in StrategyNames : results[s].score = 0

FundamentalsDefaulted ==
  (pc = "analyzing" /\ fetch.financialDone) =>
    \A i \in 1..Len(data.financialData) :
       LET rec == data.financialData[i]
       IN  /\ rec.nulls \cap {"per", "pbr", "div"} = {}
           /\ rec.per # 0
           /\ rec.pbr # 0


\* C17: in getFinancialData the sources of the fundamentals (Naver, then the
\* Yahoo quoteSummary) are asked one after the other in that order: no
\* request is sent while another is unanswered, the Yahoo request is sent
\* only after Naver gave nothing usable, and nothing is sent after a usable
\* answer.
SequentialFallback ==
  LET log == fin.log
      Sources == <<"chart", "naver", "stats">>
  IN  /\ \A i \in 1..Len(log) :
           /\ log[i].op = (IF i % 2 = 1 THEN "call" ELSE "ret")
           /\ log[i].src = Sources[(i + 1) \div 2]
      /\ \A i \in 1..Len(log) :
           (log[i].op = "call" /\ log[i].src = "stats")
           => (log[i - 1].src = "naver" /\ ~log[i - 1].usable)
      /\ \A i \in 1..Len(log) :
           (log[i].op = "ret" /\ log[i].src \in {"naver", "stats"}
            /\ log[i].usable)
           => i = Len(log)

\* Naver gave nothing, the Yahoo quoteSummary was asked and its statistics
\* were returned.
SequentialFallbackWitness ==
  /\ fin.pc = "returned"
  /\ fin.result.kind = "yahoo"
  /\ Len(fin.log) = 6


\* C18: fetchAll returns the AnalysisResult only when the four fetches are
\* complete, no strategy has run before analyzeAll received it, and
\* data.valuations and the consensus are stored only when all six strategies
\* have returned.
JoinBarriers ==
  LET fetched == /\ fetch.marketDone /\ fetch.financialDone
                 /\ fetch.supplyDone /\ fetch.technicalDone
      fetching == \/ fetch.marketDone \/ fetch.financialDone
                  \/ fetch.supplyDone \/ fetch.technicalDone
      stored == valuations # NoResults \/ comprehensiveValuation # NoValuation
  IN  /\ (pc = "snapshot") => fetched
      /\ (started > 0 \/ results # NoResults)
         => (pc \in {"analyzing", "done", "rejected"} /\ (fetching => fetched))
      /\ stored
         => (pc = "done" /\ \A s \in StrategyNames : results[s].status = "ok")

\* A request went through both barriers: four fetches, six strategies, a
\* consensus.
JoinBarriersWitness ==
  /\ pc = "done"
  /\ fetch.marketDone /\ fetch.financialDone
  /\ fetch.supplyDone /\ fetch.technicalDone
  /\ started = Len(Strategies)
  /\ comprehensiveValuation # NoValuation


Blanks(n) == {[i \in 1..k |-> " "] : k \in 0..n}

RECURSIVE Documents(_)
\* The JSON documents of at most n characters over Chars: a number, or an
\* array that is empty or holds one document.
Documents(n) ==
  IF n < 1 THEN {}
  ELSE {d \in {[i \in 1..k |-> "1"] : k \in 1..n}
             \cup {<<"[">> \o a \o <<"]">> : a \in Blanks(n)}
             \cup {<<"[">> \o x[1] \o x[2] \o x[3] \o <<"]">> :
                     x \in Blanks(n) \X Documents(n - 2) \X Blanks(n)} :
          Len(d) <= n}

\* C19: PythonExecutor.execute throws, and returns nothing, whenever the
\* child exits with a code other than 0, prints nothing but blanks, or runs
\* past the 15 s timeout; it returns a value only when the child ended by
\* itself within the timeout with code 0 and its output, blanks at the ends
\* aside, is one JSON document.
ExecuteFailsOrParses ==
  LET failed == \/ exec.code # 0
                \/ \A i \in 1..Len(exec.stdout) : exec.stdout[i] = " "
                \/ exec.elapsed > 15000
  IN  /\ (exec.pc \in {"returned", "threw"} /\ failed)
         => (exec.pc = "threw" /\ exec.value = <<>>)
      /\ (exec.pc = "returned")
         => /\ ~failed
            /\ \E a \in Blanks(MaxStdout), b \in Blanks(MaxStdout),
                  d \in Documents(MaxStdout) :
                 /\ exec.stdout = a \o d \o b
                 /\ exec.value = SelectSeq(d, NotBlank)

\* A child that exited with code 0 in time and printed a JSON array with a
\* blank after it: the array is returned.
ExecuteFailsOrParsesWitness ==
  /\ exec.pc = "returned"
  /\ exec.stdout = <<"[", "1", "]", " ">>
  /\ exec.value = <<"[", "1", "]">>


\* C20: a request issues a data call only after its checkRateLimit, and a
\* request that checkRateLimit denied (answered 429) issues none.
RateLimitBeforeCalls ==
  /\ \A i \in 1..Len(req.log) :
       req.log[i] \in Outbound
       => (i > 1 /\ req.log[1] = "checkRateLimit" /\ req.allowed)
  /\ (req.log # <<>> /\ ~req.allowed)
     => (req.log = <<"checkRateLimit">> /\ req.pc = "responded"
         /\ req.response.status = 429)

\* The sixty-first request within a minute was denied, after sixty that
\* were admitted.
RateLimitBeforeCallsWitness ==
  /\ req.pc = "responded"
  /\ req.response.status = 429
  /\ \E ip \in Ips : Len(req.requestCounts[ip]) = RATE_LIMIT


ExecuteCallsIsolated ==
  /\ \A c, d \in Callers :
       (/\ c /= d
        /\ pool.calls[c].pc \in {"spawned", "running"}
        /\ pool.calls[d].pc \in {"spawned", "running"})
       => pool.calls[c].tempFile /= pool.calls[d].tempFile
  /\ \A c \in Callers :
       (pool.calls[c].pc = "done" /\ pool.calls[c].result /= "error")
       => pool.calls[c].result = c

\* C27: when a call of execute has finished, by returning or by throwing,
\* the temp script file it created no longer exists.
TempFileDeletedAtFinish ==
  \A c \in Callers :
    (pool.calls[c].pc = "done" /\ pool.calls[c].tempFile /= NoFile)
    => pool.calls[c].tempFile \notin DOMAIN pool.files


MagicScoreInRange ==
  (calc.op = "magic" /\ calc.done) =>
    (0 <= calc.magicScore /\ calc.magicScore <= 100)


\* C26: each of the five Buffett recommendations is the recommendation of
\* some input, Sell and Strong Sell included: the quality score of some
\* input is below 30.
BuffettRecommendationsReachable ==
  (calc.op = "buffett" /\ calc.done) =>
    /\ \A r \in {"Strong Buy", "Buy", "Hold", "Sell", "Strong Sell"} :
         \E d \in BuffettCases : BuffettRecommendation(d) = r
    /\ \E d \in BuffettCases : BuffettQualityScore(d) < 30

\* The quality score is never below 30 (debt 10, net margin 10, gross
\* margin 5 and current ratio 5 are always earned), so the recommendation
\* is never Sell or Strong Sell.
BuffettQualityFloor ==
  (calc.op = "buffett" /\ calc.done) =>
    /\ calc.qualityScore >= 30
    /\ calc.recommendation \in {"Strong Buy", "Buy", "Hold"}

\* The floor is attained, and the three other recommendations occur.
BuffettQualityFloorAttained ==
  calc.op = "buffett" /\ calc.done /\ calc.qualityScore = 30


\* C28: an ip never has more than RATE_LIMIT admitted requests that are
\* less than WINDOW_MS old, and its request is denied exactly when
\* RATE_LIMIT admitted requests of that ip are less than WINDOW_MS old.
RateLimitWindow ==
  /\ \A ip \in Ips : Len(lim.admissions[ip]) <= RATE_LIMIT
  /\ lim.last.decided =>
       LET counted == Len(lim.admissions[lim.last.ip])
                        - (IF lim.last.allowed THEN 1 ELSE 0)
       IN (~lim.last.allowed) <=> (counted = RATE_LIMIT)

\* With the requests admitted at 0 out of the window at 60000 ms, a request
\* is admitted there as the last one the window has room for.
RateLimitWindowWitness ==
  /\ lim.last.decided
  /\ lim.last.allowed
  /\ Instants[lim.at] = 60000
  /\ Len(lim.admissions[lim.last.ip]) = RATE_LIMIT
  /\ lim.admissions[lim.last.ip][1] = 1

\* C29: a denied request leaves requestCounts as it was, and the first
\* request of a denied ip made WINDOW_MS or more after the oldest request
\* counted at the denial is admitted.
DeniedNotRecorded ==
  lim.last.decided =>
    /\ (~lim.last.allowed) =>
         lim.requestCounts[lim.last.ip] = lim.last.before
    /\ (/\ lim.last.deniedSince # NoTime
        /\ Instants[lim.at] - lim.last.deniedSince >= WINDOW_MS)
       => lim.last.allowed

\* An ip denied while its oldest counted request is the one made at 0 is
\* admitted at 60000 ms.
DeniedNotRecordedWitness ==
  /\ lim.last.decided
  /\ lim.last.allowed
  /\ lim.last.deniedSince = 0
  /\ Instants[lim.at] = 60000


\* The peers of a finished comparison whose fetches resolved / whose
\* fetches resolved with a positive PER or PBR, as records in list order.
ResolvedPeers ==
  LET idx == SelectSeq([i \in 1..Len(cmp.tasks) |-> i],
                       LAMBDA i : cmp.tasks[i].state = "data")
  IN [k \in 1..Len(idx) |->
        [ticker |-> cmp.peers[idx[k]],
         currentPrice |-> cmp.tasks[idx[k]].fetched.currentPrice,
         marketCap |-> cmp.tasks[idx[k]].fetched.marketCap,
         per |-> cmp.tasks[idx[k]].fetched.per,
         pbr |-> cmp.tasks[idx[k]].fetched.pbr,
         eps |-> cmp.tasks[idx[k]].fetched.eps,
         div |-> cmp.tasks[idx[k]].fetched.div]]

====
